---- MODULE Spec2Model ----
(***************************************************************************)
(* A model of the debug-configuration provider of vscode-java-debug:       *)
(* JavaDebugConfigurationProvider.resolveAndValidateDebugConfiguration     *)
(* (src/src/configurationProvider.ts), the settings flag it shares with    *)
(* the configuration-change observer, and the command gateway              *)
(* (src/unnamed/part_002).                                                 *)
(*                                                                         *)
(* A resolution call is an async function: it runs synchronously up to     *)
(* the next await, where it is suspended until the awaited collaborator    *)
(* answers.  Each action below is one such synchronous stretch: it starts  *)
(* when an awaited call answers (the answer is drawn with \E) and runs to  *)
(* the next await or to the call's end, the catch and finally blocks       *)
(* included.  Editor events (a cancel, a settings change) interleave       *)
(* between the stretches.                                                  *)
(***************************************************************************)
EXTENDS Integers, Sequences, FiniteSets, TLC

\* ------------------------------------------------------------------ bounds

\* How many java.debug settings changes a behaviour makes.
MaxChanges == 1

\* ------------------------------------------------------------------ values

\* JavaScript's undefined, for string-valued fields.
UNDEF == "undefined"

\* The two call slots: resolutions that may be in flight together.
Calls == {1, 2}

\* The processId value that stands for a selection still pending (line 298).
PickJavaProcess == "${command:PickJavaProcess}"

\* Files that exist on disk (what fs.lstatSync finds).
ExistingFiles == {"/w/App.java"}

\* Number(config.processId) (line 302) on the strings used here; NaN is the
\* value Number.isNaN accepts.
NaN == -1

Number(s) ==
    CASE s = "12345" -> 12345
      [] s = "0x10" -> 16
      [] OTHER -> NaN

\* A configuration no field of which is set: what the editor passes when it
\* finds no launch configuration ({} or {noDebug: true}).
EmptyConfiguration ==
    [type |-> UNDEF, name |-> UNDEF, request |-> UNDEF, noDebug |-> FALSE,
     mainClass |-> "", projectName |-> UNDEF,
     classPaths |-> <<>>, modulePaths |-> <<>>, javaExec |-> UNDEF,
     vmArgs |-> UNDEF, console |-> UNDEF, shortenCommandLine |-> UNDEF,
     launcherScript |-> UNDEF,
     hostName |-> "", port |-> 0, processId |-> UNDEF,
     progressId |-> UNDEF]

\* Fields as JavaScript reads them: "" stands for an unset or empty string
\* (both falsy), port 0 for an unset or zero port (both falsy), <<>> for an
\* unset or empty list (both _.isEmpty).
Named(request) ==
    [EmptyConfiguration EXCEPT !.type = "java", !.name = "cfg", !.request = request]

\* Progress reporters other commands registered before the resolution.
RegisteredIds == {"p1"}

\* The reporter progressReporterManager.create makes for call r.
NewReporter(r) == IF r = 1 THEN "c1" ELSE "c2"

\* ---------------------------------------------------------------- inputs

LaunchInputs ==
    {[Named("launch") EXCEPT !.mainClass = m[1], !.projectName = m[2], !.classPaths = cp]
        : m \in {<<"", UNDEF>>, <<"/w/App.java", UNDEF>>, <<"a.Main", "p">>},
          cp \in {<<>>, <<"lib.jar">>}}
    \cup {[Named("launch") EXCEPT !.mainClass = "a.Main", !.projectName = "p",
                                  !.classPaths = <<"lib.jar">>,
                                  !.shortenCommandLine = "argfile"],
          [Named("launch") EXCEPT !.mainClass = "a.Main", !.projectName = "p",
                                  !.classPaths = <<"lib.jar">>,
                                  !.shortenCommandLine = "argfile",
                                  !.javaExec = "/jdk/bin/java",
                                  !.vmArgs = "", !.console = "internalConsole"]}

AttachInputs ==
    {[Named("attach") EXCEPT !.hostName = h[1], !.port = h[2], !.processId = p]
        : h \in {<<"", 0>>, <<"localhost", 5005>>, <<"localhost", 0>>},
          p \in {UNDEF, PickJavaProcess, "abc", "12345"}}

\* A launch configuration as launch.json stores it, the defaults written out.
StoredLaunch ==
    [Named("launch") EXCEPT !.name = "stored",
                            !.mainClass = "a.Main", !.projectName = "p",
                            !.vmArgs = "", !.console = "internalConsole"]

StoredAttach ==
    [Named("attach") EXCEPT !.hostName = "localhost", !.port = 5005]

\* A launch configuration as the user writes it, vmArgs and console left out.
StoredBare ==
    [Named("launch") EXCEPT !.mainClass = "a.Main", !.projectName = "p"]

OtherInputs ==
    {Named("test"), EmptyConfiguration, [EmptyConfiguration EXCEPT !.noDebug = TRUE]}

\* Configurations that carry a __progressId, registered ("p1") or not ("px").
ProgressInputs ==
    {[c EXCEPT !.progressId = id]
        : c \in {[Named("launch") EXCEPT !.mainClass = "a.Main", !.projectName = "p"],
                 StoredAttach},
          id \in {"p1", "px"}}

\* The configurations a resolution is called with.
InputConfigs ==
    LaunchInputs \cup AttachInputs \cup OtherInputs \cup {StoredLaunch} \cup ProgressInputs

\* The cancellation token a call is given: one that has not fired (which
\* covers a call given none: it never fires), or one that has.
TokenStates == {"live", "fired"}

\* The block of the configuration keyed by the current platform's name: the
\* keys it sets, and their values.
NoBlock == [keys |-> {}, values |-> EmptyConfiguration]

MainClassBlock ==
    [keys |-> {"mainClass", "projectName"},
     values |-> [EmptyConfiguration EXCEPT !.mainClass = "a.Main", !.projectName = "p"]]

HostBlock ==
    [keys |-> {"hostName", "port"},
     values |-> [EmptyConfiguration EXCEPT !.hostName = "localhost", !.port = 5005]]

\* What a call is given: a configuration and its platform block.
Inputs ==
    {<<c, NoBlock>> : c \in InputConfigs}
    \cup {<<Named("launch"), MainClassBlock>>,
          <<[Named("attach") EXCEPT !.processId = "12345"], HostBlock>>,
          <<[Named("launch") EXCEPT !.mainClass = "a.Main", !.projectName = "p"], HostBlock>>}

\* What the language server and the pickers answer with.
MainA == [mainClass |-> "a.Main", projectName |-> "p"]

MainB == [mainClass |-> "b.App", projectName |-> "q"]

EntryLists == {<<>>, <<MainA>>, <<MainA, MainB>>}

\* [modulePaths, classPaths] as resolveClasspath answers.
ClasspathAnswers == {<< <<>>, <<>> >>, << <<>>, <<"bin">> >>, << <<"mods">>, <<>> >>}

\* resolveJavaProcess: no process (<<>>) or its endpoint.
ProcessAnswers == {<<>>, << [hostName |-> "127.0.0.1", debugPort |-> 5005] >>}

\* What a failed awaited call throws.
RemoteErrors ==
    {[type |-> "JavaExtensionNotEnabledError", message |-> "not enabled"],
     [type |-> "Error", message |-> "request failed"]}

UserError(message) == [type |-> "UserError", message |-> message]

\* ----------------------------------------------------------------- state

VARIABLES
    call,                  \* per call slot: the state of the resolution in it
    cancelled,             \* the progress reporters whose isCancelled() is true
    isUserSettingsDirty,   \* JavaDebugConfigurationProvider.isUserSettingsDirty
    setCount,              \* how often the flag was set to true, the initial value counted
    pushCount,             \* how many updateDebugSettings() calls resolutions started
    pushDone,              \* the latest marking whose settings push has completed
    eventPush,             \* pushes the change observer started, still in flight
    changes,               \* how many java.debug settings changes there were
    launchConfigurations,  \* the stored "launch" configurations list
    javaExtEnabled,        \* utility.isJavaExtEnabled()
    commandBus,            \* what vscode.commands.executeCommand was called with
    invocation,            \* the latest invocation of the command gateway
    evaluation             \* the latest call of a helper of the provider: what it
                           \* was given and what it produced

gatewayVars == <<javaExtEnabled, commandBus, invocation>>

vars == <<call, cancelled, isUserSettingsDirty,
          setCount, pushCount, pushDone, eventPush, changes, launchConfigurations,
          javaExtEnabled, commandBus, invocation, evaluation>>

settingsVars == <<isUserSettingsDirty, setCount, pushCount, pushDone, eventPush, changes>>

\* A call slot no resolution runs in.
IdleCall ==
    [pc |-> "idle", config |-> EmptyConfiguration, orig |-> EmptyConfiguration,
     progressReporter |-> "none", created |-> FALSE, token |-> "none",
     result |-> "pending", shown |-> {}, prompts |-> 0, cancelCalls |-> 0,
     raised |-> "none", lateCancel |-> FALSE, dispatched |-> FALSE,
     attachPath |-> {}, resolverCalls |-> 0, javaProcess |-> "pending",
     pending |-> <<>>, persisted |-> FALSE,
     startMark |-> 0, pushMark |-> 0, pushFailed |-> "none",
     block |-> NoBlock, selectedFix |-> <<>>, rawConfigs |-> <<>>,
     started |-> {}, validation |-> "none", entries |-> <<>>, afterCancel |-> FALSE,
     proposals |-> <<>>, currentFile |-> UNDEF, scanned |-> "no"]

\* ------------------------------------------------------ progress tracker

\* IProgressReporter.isCancelled(): true for good once the reporter's
\* cancel() ran or a signal it observes fired.
isCancelled(id) == id \in cancelled

\* progressReporterManager.create: the cancelled reporters once a new
\* reporter stands under the name id.
create(reporters, id) == reporters \ {id}

\* progressReporter.observe(token): the cancelled reporters once reporter id
\* observes the token.
observe(reporters, id, token) ==
    IF token = "fired" THEN reporters \cup {id} ELSE reporters

\* The awaits of the launch and attach pipelines (lines 202 to 335): a call
\* suspended at one of them is inside the pipeline.
PipelinePcs ==
    {"buildWorkspace", "resolveMainMethod", "resolveMainClass", "showQuickPick",
     "showQuickPickWithRecentlyUsed", "validateLaunchConfig",
     "showErrorMessageWithTroubleshooting", "showQuickPickFix",
     "launchConfigurations.update", "resolveClasspath", "resolveJavaExecutable",
     "populateStepFilters", "detectPreviewFlag", "addMoreHelpfulVMArgs",
     "detectLaunchCommandStyle", "resolveJavaProcess"}

\* The awaits of the whole resolution.
AwaitPcs ==
    PipelinePcs \cup {"waitForStandardMode", "getJavaHome", "JAVA_UPDATE_DEBUG_SETTINGS"}

\* The calls and prompts a call keeps a record of having started.
Recorded ==
    {"resolveClasspath", "resolveJavaExecutable", "populateStepFilters",
     "showErrorMessage(Build failed)"}

\* The awaits that are prompts answered by the user, not calls that can fail.
PromptPcs ==
    {"showQuickPick", "showQuickPickWithRecentlyUsed",
     "showErrorMessageWithTroubleshooting", "showQuickPickFix"}

\* What a synchronous stretch of call r reads from the editor while it runs:
\* the tracker's state, the forceBuildBeforeLaunch setting, the active
\* editor's file ("" when there is none).
Editor(r) ==
    [isCancelled : {isCancelled(call[r].progressReporter)},
     needsBuildWorkspace : BOOLEAN,
     activeFile : {"", "/w/App.java"}]

\* The same for a stretch that reads the tracker's state only.
Tracker(r) ==
    [isCancelled : {isCancelled(call[r].progressReporter)},
     needsBuildWorkspace : {FALSE},
     activeFile : {""}]

\* A message put before the user: the function that shows it, what it says,
\* what it names, and whether the tracker was cancelled when it was shown.
Msg(via, what, about, e) ==
    [via |-> via, what |-> what, about |-> about, afterCancel |-> e.isCancelled]

\* ------------------------------------------- resolveAndValidateDebugConfiguration

\* finally { progressReporter.cancel(); }
finallyBlock(c) == [c EXCEPT !.cancelCalls = @ + 1]

\* A return statement inside the try block: the finally block runs.
Return(c, value, msgs) ==
    finallyBlock([c EXCEPT !.pc = "done", !.result = value, !.shown = @ \cup msgs])

\* The message the catch block shows for an exception.
\* A variant without the case of the Java extension.
catchMessage_noGuide(ex, e) ==
    IF ex.type = "UserError"
    THEN Msg("showErrorMessageWithTroubleshooting", "UserError", ex.message, e)
    ELSE Msg("showErrorMessageWithTroubleshooting", "Error", ex.message, e)

catchMessage(ex, e) ==
    IF ex.type = "JavaExtensionNotEnabledError"
    THEN Msg("guideToInstallJavaExtension", "install", "", e)
    ELSE IF ex.type = "UserError"
    THEN Msg("showErrorMessageWithTroubleshooting", "UserError", ex.message, e)
    ELSE Msg("showErrorMessageWithTroubleshooting", "Error", ex.message, e)

\* A variant of the catch block that handles a UserError only and lets any
\* other exception go on to the caller.
catchBlock_rethrows(c, ex, e) ==
    IF ex.type = "UserError"
    THEN finallyBlock([c EXCEPT !.pc = "done", !.result = UNDEF, !.raised = ex.type,
                                !.shown = @ \cup {catchMessage(ex, e)}])
    ELSE finallyBlock([c EXCEPT !.pc = "done", !.result = "rejected", !.raised = ex.type])

\* An exception thrown inside the try block: catch, then finally.
catchBlock(c, ex, e) ==
    finallyBlock([c EXCEPT !.pc = "done", !.result = UNDEF, !.raised = ex.type,
                           !.shown = @ \cup {catchMessage(ex, e)}])

\* The call suspends at an await of the named collaborator.
Await(c, name) == [c EXCEPT !.pc = name, !.started = @ \cup ({name} \cap Recorded)]

\* A variant without the final cancellation check.
finalize_unchecked(c, e) == Return([c EXCEPT !.config.progressId = UNDEF], "config", {})

\* A variant that hands the configuration over as it is.
finalize_keepsProgressId(c, e) ==
    IF c.token = "fired" \/ e.isCancelled
    THEN Return(c, UNDEF, {})
    ELSE Return(c, "config", {})

\* The final cancellation check and the hand-over of the configuration.
finalize(c, e) ==
    IF c.token = "fired" \/ e.isCancelled
    THEN Return(c, UNDEF, {})
    ELSE Return([c EXCEPT !.config.progressId = UNDEF], "config", {})

\* ---- attach

\* A variant of the attach chain that looks at processId first.
attachBranch_processIdFirst(config) ==
    IF config.processId # UNDEF THEN "processId"
    ELSE IF config.hostName # "" /\ config.port # 0 THEN "hostPort"
    ELSE "none"

\* Which branch of the attach chain a configuration takes.
attachBranch(config) ==
    IF config.hostName # "" /\ config.port # 0 THEN "hostPort"
    ELSE IF config.processId # UNDEF THEN "processId"
    ELSE "none"

\* hostName and port are configured: they are used as they are.
useHostPort(config) == [config EXCEPT !.processId = UNDEF]

\* A variant that takes the endpoint and leaves processId in place.
useJavaProcess_keepsProcessId(config, javaProcess) ==
    [config EXCEPT !.hostName = javaProcess.hostName,
                   !.port = javaProcess.debugPort]

\* The process was found: its endpoint becomes the target.
useJavaProcess(config, javaProcess) ==
    [config EXCEPT !.processId = UNDEF,
                   !.hostName = javaProcess.hostName,
                   !.port = javaProcess.debugPort]

InvalidProcessId == "is not a valid process id"

NotDebuggable ==
    "is not a debuggable Java process; turn on debug mode using vmArgs like -agentlib:jdwp=transport=dt_socket,server=y,address=5005"

\* A variant that does not know the pick-a-process sentinel.
processIdBranch_noSentinel(c, e) ==
    IF Number(c.config.processId) = NaN
    THEN Return(c, UNDEF, {Msg("showErrorMessage", InvalidProcessId, c.config.processId, e)})
    ELSE Await([c EXCEPT !.resolverCalls = @ + 1], "resolveJavaProcess")

\* A variant that hands whatever Number() gives to the resolver.
processIdBranch_noNaNCheck(c, e) ==
    IF c.config.processId = PickJavaProcess
    THEN Return(c, UNDEF, {})
    ELSE Await([c EXCEPT !.resolverCalls = @ + 1], "resolveJavaProcess")

processIdBranch(c, e) ==
    IF c.config.processId = PickJavaProcess
    THEN Return(c, UNDEF, {})
    ELSE IF Number(c.config.processId) = NaN
    THEN Return(c, UNDEF, {Msg("showErrorMessage", InvalidProcessId, c.config.processId, e)})
    ELSE Await([c EXCEPT !.resolverCalls = @ + 1], "resolveJavaProcess")

\* A variant that gives up without a word when neither form is supplied.
attachPipeline_silent(c, e) ==
    CASE attachBranch(c.config) = "hostPort" ->
            Await([c EXCEPT !.config = useHostPort(@), !.attachPath = @ \cup {"hostPort"}],
                  "populateStepFilters")
      [] attachBranch(c.config) = "processId" ->
            processIdBranch([c EXCEPT !.attachPath = @ \cup {"processId"}], e)
      [] OTHER -> Return(c, UNDEF, {})

attachPipeline(c, e) ==
    CASE attachBranch(c.config) = "hostPort" ->
            Await([c EXCEPT !.config = useHostPort(@), !.attachPath = @ \cup {"hostPort"}],
                  "populateStepFilters")
      [] attachBranch(c.config) = "processId" ->
            processIdBranch([c EXCEPT !.attachPath = @ \cup {"processId"}], e)
      [] OTHER ->
            catchBlock(c, UserError("Please specify the hostName/port directly, or provide the processId"), e)

\* A variant that gives up without a message when no process is found.
afterResolveJavaProcess_silent(c, javaProcess, e) ==
    IF javaProcess = <<>>
    THEN Return(c, UNDEF, {})
    ELSE Await([c EXCEPT !.config = useJavaProcess(@, javaProcess[1])], "populateStepFilters")

afterResolveJavaProcess(c, javaProcess, e) ==
    IF javaProcess = <<>>
    THEN Return(c, UNDEF, {Msg("showErrorMessage", NotDebuggable, c.config.processId, e)})
    ELSE Await([c EXCEPT !.config = useJavaProcess(@, javaProcess[1])], "populateStepFilters")

\* ---- launch, from its last step back to its first

\* process.platform of the editor's host.
platform == "linux"

afterCommandStyle(c, e) ==
    finalize(IF platform = "win32" /\ c.config.console # "internalConsole"
             THEN [c EXCEPT !.config.launcherScript = "launcher.bat"]
             ELSE c, e)

afterHelpfulVMArgs(c, e) ==
    IF c.config.shortenCommandLine \in {UNDEF, "", "auto"}
    THEN Await(c, "detectLaunchCommandStyle")
    ELSE afterCommandStyle(c, e)

\* A variant that populates the step filters after the preview flag.
afterDetectPreviewFlag_thenStepFilters(c, flag, e) == Await(c, "populateStepFilters")

afterDetectPreviewFlag(c, flag, e) ==
    Await(IF flag
          THEN [c EXCEPT !.config.vmArgs = (IF @ = UNDEF THEN "" ELSE @) \o " --enable-preview"]
          ELSE c,
          "addMoreHelpfulVMArgs")

afterPopulateStepFilters(c, e) ==
    IF c.config.request = "launch"
    THEN Await(c, "detectPreviewFlag")
    ELSE finalize(c, e)

afterResolveJavaExecutable(c, javaExec, e) ==
    LET c1 == [c EXCEPT !.config.javaExec = javaExec]
    IN  IF e.isCancelled THEN Return(c1, UNDEF, {}) ELSE Await(c1, "populateStepFilters")

\* _.isEmpty(config.classPaths) && _.isEmpty(config.modulePaths)
noPaths(config) == config.classPaths = <<>> /\ config.modulePaths = <<>>

\* A variant without the check that some path is there.
afterClasspath_unchecked(c, e) == Await(c, "resolveJavaExecutable")

afterClasspath(c, e) ==
    IF noPaths(c.config)
    THEN catchBlock(c, UserError("Cannot resolve the modulepaths/classpaths automatically"), e)
    ELSE Await(c, "resolveJavaExecutable")

afterResolveClasspath(c, answer, e) ==
    afterClasspath([c EXCEPT !.config.modulePaths = answer[1], !.config.classPaths = answer[2]], e)

\* A variant that asks for the classpath whatever the configuration holds.
afterMainClass_alwaysResolves(c, option, e) ==
    IF option = <<>> \/ option[1].mainClass = ""
    THEN Return(c, UNDEF, {})
    ELSE LET c1 == [c EXCEPT !.config.mainClass = option[1].mainClass,
                             !.config.projectName = option[1].projectName]
         IN  IF e.isCancelled THEN Return(c1, UNDEF, {})
             ELSE Await(c1, "resolveClasspath")

\* A variant that leaves config.mainClass and config.projectName as they were.
afterMainClass_unassigned(c, option, e) ==
    IF option = <<>> \/ option[1].mainClass = ""
    THEN Return(c, UNDEF, {})
    ELSE IF e.isCancelled THEN Return(c, UNDEF, {})
    ELSE IF noPaths(c.config) THEN Await(c, "resolveClasspath")
    ELSE afterClasspath(c, e)

\* What follows resolveAndValidateMainClass: option is <<>> (undefined) or
\* the one main class chosen.
afterMainClass(c, option, e) ==
    IF option = <<>> \/ option[1].mainClass = ""
    THEN Return(c, UNDEF, {})
    ELSE LET c1 == [c EXCEPT !.config.mainClass = option[1].mainClass,
                             !.config.projectName = option[1].projectName]
         IN  IF e.isCancelled THEN Return(c1, UNDEF, {})
             ELSE IF noPaths(c1.config) THEN Await(c1, "resolveClasspath")
             ELSE afterClasspath(c1, e)

\* mainClassPicker: a single option is taken without a prompt when autoPick
\* is set, anything else is put before the user.
pick(c, options, autoPick, name, e) ==
    IF autoPick /\ Len(options) = 1
    THEN afterMainClass(c, options, e)
    ELSE Await([c EXCEPT !.pending = options, !.prompts = @ + 1], name)

isFile(filePath) == filePath \in ExistingFiles

afterResolveMainMethod(c, mainEntries, e) ==
    IF Len(mainEntries) > 0
    THEN pick([c EXCEPT !.entries = mainEntries], mainEntries, TRUE, "showQuickPick", e)
    ELSE Await(c, "resolveMainClass")

\* promptMainClass, after lsPlugin.resolveMainClass answered.
promptMainClass(c, res, e) ==
    IF Len(res) = 0
    THEN catchBlock(c, UserError("Cannot find a class with the main method"), e)
    ELSE pick([c EXCEPT !.entries = res], res, TRUE, "showQuickPickWithRecentlyUsed", e)

\* The validation messages of the invalid fields, joined.
errors(response) ==
    IF ~response.mainClass /\ ~response.projectName THEN "mainClass message, projectName message"
    ELSE IF ~response.mainClass THEN "mainClass message"
    ELSE "projectName message"

\* A variant that offers the fix even when there is nothing to propose.
fixMainClass_alwaysOffers(c, response, e) ==
    Await([c EXCEPT !.pending = response.proposals, !.prompts = @ + 1,
                    !.shown = @ \cup {Msg("showErrorMessageWithTroubleshooting",
                                          "UserError", errors(response), e)}],
          "showErrorMessageWithTroubleshooting")

fixMainClass(c, response, e) ==
    IF Len(response.proposals) > 0
    THEN Await([c EXCEPT !.pending = response.proposals, !.prompts = @ + 1,
                         !.shown = @ \cup {Msg("showErrorMessageWithTroubleshooting",
                                               "UserError", errors(response), e)}],
               "showErrorMessageWithTroubleshooting")
    ELSE catchBlock(c, UserError(errors(response)), e)

\* A variant that takes every answer as invalid.
afterValidateLaunchConfig_alwaysFix(c, response, e) == fixMainClass(c, response, e)

afterValidateLaunchConfig(c, response, e) ==
    IF ~response.mainClass \/ ~response.projectName
    THEN fixMainClass(c, response, e)
    ELSE afterMainClass(c, << [mainClass |-> c.config.mainClass,
                               projectName |-> c.config.projectName] >>, e)

\* A variant that scans the project without asking about the file first.
resolveAndValidateMainClass_scansFirst(c, e) ==
    IF c.config.mainClass = "" \/ isFile(c.config.mainClass)
    THEN LET currentFile == IF c.config.mainClass # "" THEN c.config.mainClass ELSE e.activeFile
         IN  Await([c EXCEPT !.currentFile = currentFile], "resolveMainClass")
    ELSE Await(c, "validateLaunchConfig")

resolveAndValidateMainClass(c, e) ==
    IF c.config.mainClass = "" \/ isFile(c.config.mainClass)
    THEN LET currentFile == IF c.config.mainClass # "" THEN c.config.mainClass ELSE e.activeFile
         IN  IF currentFile # ""
             THEN Await([c EXCEPT !.currentFile = currentFile], "resolveMainMethod")
             ELSE Await([c EXCEPT !.currentFile = currentFile], "resolveMainClass")
    ELSE Await(c, "validateLaunchConfig")

afterBuildWorkspace(c, e) ==
    IF e.isCancelled THEN Return(c, UNDEF, {}) ELSE resolveAndValidateMainClass(c, e)

\* The java.debug.settings values read for the defaults.
debugSettings == [vmArgs |-> "", console |-> "internalConsole"]

launchDefaults(config) ==
    [config EXCEPT !.vmArgs = IF @ = UNDEF THEN debugSettings.vmArgs ELSE @,
                   !.console = IF @ \in {UNDEF, ""} THEN debugSettings.console ELSE @]

launchPipeline(c, e) ==
    LET c1 == [c EXCEPT !.config = launchDefaults(@)]
    IN  IF e.needsBuildWorkspace
        THEN Await(c1, "buildWorkspace")
        ELSE afterBuildWorkspace(c1, e)

\* Object.keys(config) without "noDebug" is empty.
isEmptyConfig(config) == [config EXCEPT !.noDebug = FALSE] = EmptyConfiguration

\* A variant that takes an empty configuration as it is.
dispatch_asGiven(c, e) ==
    LET c1 == [c EXCEPT !.dispatched = TRUE]
    IN  CASE c1.config.request = "launch" -> launchPipeline(c1, e)
          [] c1.config.request = "attach" -> attachPipeline(c1, e)
          [] OTHER -> catchBlock(c1, UserError("Request type is not supported"), e)

\* The generated in-memory configuration, then the branch on config.request.
dispatch(c, e) ==
    LET c0 == [c EXCEPT !.dispatched = TRUE]
        c1 == IF isEmptyConfig(c0.config)
              THEN [c0 EXCEPT !.config.type = "java", !.config.name = "Java Debug",
                              !.config.request = "launch"]
              ELSE c0
    IN  CASE c1.config.request = "launch" -> launchPipeline(c1, e)
          [] c1.config.request = "attach" -> attachPipeline(c1, e)
          [] OTHER -> catchBlock(c1, UserError("Request type is not supported"), e)

\* A variant that leaves the flag as it found it.
consumeDirty_kept(dirty) == dirty

\* updateDebugSettings() once the push command answered or failed: the
\* catch block around the command logs the failure, nothing more.
afterUpdateDebugSettings(c, failed, e) ==
    dispatch([c EXCEPT !.pushFailed = IF failed THEN "command" ELSE @], e)

\* The value isUserSettingsDirty takes when a resolution finds it set.
consumeDirty(dirty) == FALSE

\* A variant in which a top-level value that is set wins over the block's.
mergePlatformProperties_topLevelWins(config, block) ==
    [k \in DOMAIN config |->
        IF k \in block.keys /\ config[k] = EmptyConfiguration[k]
        THEN block.values[k] ELSE config[k]]

\* for (const key of Object.keys(config[platformName])) config[key] = ...
mergePlatformProperties(config, block) ==
    [k \in DOMAIN config |-> IF k \in block.keys THEN block.values[k] ELSE config[k]]

\* ---- the stored launch configurations

\* A variant: the last index that matches.
findIndex_last(rawConfigs, oldConfig) ==
    IF \E i \in 1..Len(rawConfigs) : rawConfigs[i] = oldConfig
    THEN CHOOSE i \in 1..Len(rawConfigs) :
            /\ rawConfigs[i] = oldConfig
            /\ \A j \in (i + 1)..Len(rawConfigs) : rawConfigs[j] # oldConfig
    ELSE 0

\* _.findIndex(rawConfigs, (config) => _.isEqual(config, oldConfig)); 0 for -1.
findIndex(rawConfigs, oldConfig) ==
    IF \E i \in 1..Len(rawConfigs) : rawConfigs[i] = oldConfig
    THEN CHOOSE i \in 1..Len(rawConfigs) :
            /\ rawConfigs[i] = oldConfig
            /\ \A j \in 1..(i - 1) : rawConfigs[j] # oldConfig
    ELSE 0

\* The list persistLaunchConfig writes back (the list itself when it writes nothing).
persistLaunchConfig(rawConfigs, oldConfig, newConfig) ==
    IF findIndex(rawConfigs, oldConfig) > 0
    THEN [rawConfigs EXCEPT ![findIndex(rawConfigs, oldConfig)] = newConfig]
    ELSE rawConfigs

\* A variant that writes a configuration made anew from the change.
persistMainClassOption_anew(rawConfigs, oldConfig, change) ==
    persistLaunchConfig(rawConfigs, oldConfig,
                        [Named("launch") EXCEPT !.mainClass = change.mainClass,
                                                !.projectName = change.projectName])

\* persistMainClassOption: a deep copy of the configuration with the change.
persistMainClassOption(rawConfigs, oldConfig, change) ==
    persistLaunchConfig(rawConfigs, oldConfig,
                        [oldConfig EXCEPT !.mainClass = change.mainClass,
                                          !.projectName = change.projectName])

\* A variant that takes a dismissed selection for an error.
afterSelectFix_throws(c, selectedFix, rawConfigs, e) ==
    IF selectedFix = <<>>
    THEN catchBlock(c, UserError("no main class selected"), e)
    ELSE IF findIndex(rawConfigs, c.config) > 0
    THEN Await([c EXCEPT !.pending = selectedFix, !.persisted = TRUE],
               "launchConfigurations.update")
    ELSE afterMainClass(c, selectedFix, e)

\* fixMainClass after the user picked (or dismissed) a proposal.
afterSelectFix(c, selectedFix, rawConfigs, e) ==
    IF selectedFix = <<>>
    THEN afterMainClass(c, <<>>, e)
    ELSE IF findIndex(rawConfigs, c.config) > 0
    THEN Await([c EXCEPT !.pending = selectedFix, !.persisted = TRUE],
               "launchConfigurations.update")
    ELSE afterMainClass(c, selectedFix, e)

\* ---------------------------------------------------------------- actions

Max(a, b) == IF a > b THEN a ELSE b

\* A call suspended inside the pipeline when its reporter becomes cancelled
\* is marked.
Marked(c, becameCancelled) ==
    IF c.progressReporter \in becameCancelled /\ c.pc \in PipelinePcs
    THEN [c EXCEPT !.lateCancel = TRUE]
    ELSE c

\* Call r moves to c; newCancelled are the reporters cancelled afterwards.
Step(r, c, newCancelled) ==
    /\ call' = [q \in Calls |->
                  IF q = r THEN c ELSE Marked(call[q], newCancelled \ cancelled)]
    /\ cancelled' = newCancelled

\* Reporter id becomes cancelled while no call runs.
Cancel(id) ==
    /\ call' = [q \in Calls |-> Marked(call[q], {id})]
    /\ cancelled' = cancelled \cup {id}

\* Call r moves to c; if the finally block ran, progressReporter.cancel() did.
\* That c starts a remote call or prompt with the tracker already cancelled
\* is noted in afterCancel (the push command that updateDebugSettings sends
\* after getJavaHome, part of the one settings push, left aside).
Commit(r, c) ==
    Step(r,
         IF /\ c.pc \in AwaitPcs \ {"JAVA_UPDATE_DEBUG_SETTINGS"}
            /\ isCancelled(call[r].progressReporter)
         THEN [c EXCEPT !.afterCancel = TRUE]
         ELSE c,
         IF c.cancelCalls > call[r].cancelCalls
         THEN cancelled \cup {c.progressReporter}
         ELSE cancelled)

\* A variant that creates a reporter whenever it finds none.
StartWith_createsAnyway(r, inputs, tokens) ==
    /\ call[r].pc = "idle"
    /\ \E input \in inputs, tok \in tokens :
         LET config == mergePlatformProperties(input[1], input[2])
             found == config.progressId \in RegisteredIds
             c0 == [IdleCall EXCEPT !.config = config, !.orig = config, !.block = input[2],
                                    !.token = tok, !.startMark = setCount]
             rep == IF found THEN config.progressId ELSE NewReporter(r)
             fresh == IF found THEN cancelled ELSE create(cancelled, rep)
             observed == observe(fresh, rep, tok)
             c1 == [c0 EXCEPT !.progressReporter = rep, !.created = ~found]
         IN  IF rep \in observed
             THEN Step(r, [c1 EXCEPT !.pc = "done", !.result = UNDEF], observed)
             ELSE Step(r, Await(c1, "waitForStandardMode"), observed)
    /\ UNCHANGED <<settingsVars, launchConfigurations, gatewayVars, evaluation>>

\* resolveDebugConfigurationWithSubstitutedVariables up to the first await:
\* the platform merge, the reporter, observe(token), the early returns.
StartWith(r, inputs, tokens) ==
    /\ call[r].pc = "idle"
    /\ \E input \in inputs, tok \in tokens :
         LET config == mergePlatformProperties(input[1], input[2])
             found == config.progressId \in RegisteredIds
             c0 == [IdleCall EXCEPT !.config = config, !.orig = config, !.block = input[2],
                                    !.token = tok, !.startMark = setCount]
             rep == IF found THEN config.progressId ELSE NewReporter(r)
             fresh == IF found THEN cancelled ELSE create(cancelled, rep)
             observed == observe(fresh, rep, tok)
             c1 == [c0 EXCEPT !.progressReporter = rep, !.created = ~found]
         IN  IF ~found /\ config.progressId # UNDEF
             THEN Step(r, [c0 EXCEPT !.pc = "done", !.result = UNDEF], cancelled)
             ELSE IF rep \in observed
             THEN Step(r, [c1 EXCEPT !.pc = "done", !.result = UNDEF], observed)
             ELSE Step(r, Await(c1, "waitForStandardMode"), observed)
    /\ UNCHANGED <<settingsVars, launchConfigurations, gatewayVars, evaluation>>

Start(r) == StartWith(r, Inputs, TokenStates)

\* The caller has the call's result: the slot is free for the next call.
CallEnds(r) ==
    /\ call[r].pc = "done"
    /\ call' = [call EXCEPT ![r] = IdleCall]
    /\ UNCHANGED <<cancelled, settingsVars, launchConfigurations, gatewayVars, evaluation>>

WaitForStandardModeReturns(r) ==
    /\ call[r].pc = "waitForStandardMode"
    /\ \E isOnStandardMode \in BOOLEAN, e \in Editor(r) :
         IF ~isOnStandardMode \/ e.isCancelled
         THEN /\ Commit(r, Return(call[r], UNDEF, {}))
              /\ UNCHANGED settingsVars
         ELSE IF isUserSettingsDirty
         THEN /\ Commit(r, Await([call[r] EXCEPT !.pushMark = setCount], "getJavaHome"))
              /\ isUserSettingsDirty' = consumeDirty(isUserSettingsDirty)
              /\ pushCount' = pushCount + 1
              /\ UNCHANGED <<setCount, pushDone, eventPush, changes>>
         ELSE /\ Commit(r, dispatch(call[r], e))
              /\ UNCHANGED settingsVars
    /\ UNCHANGED <<launchConfigurations, gatewayVars, evaluation>>

\* updateDebugSettings after utility.getJavaHome(): with no settings to push
\* it returns, else it awaits the push.
GetJavaHomeReturns(r) ==
    /\ call[r].pc = "getJavaHome"
    /\ \E hasSettings \in BOOLEAN, e \in Editor(r) :
         IF hasSettings
         THEN /\ Commit(r, Await(call[r], "JAVA_UPDATE_DEBUG_SETTINGS"))
              /\ UNCHANGED pushDone
         ELSE /\ Commit(r, dispatch(call[r], e))
              /\ pushDone' = Max(pushDone, call[r].pushMark)
    /\ UNCHANGED <<isUserSettingsDirty, setCount, pushCount, eventPush, changes,
                   launchConfigurations, gatewayVars, evaluation>>

\* The push answered or failed: the catch inside updateDebugSettings logs a
\* failure and the resolution goes on.
UpdateDebugSettingsReturns(r) ==
    /\ call[r].pc = "JAVA_UPDATE_DEBUG_SETTINGS"
    /\ \E failed \in BOOLEAN, e \in Editor(r) :
         Commit(r, afterUpdateDebugSettings(call[r], failed, e))
    /\ pushDone' = Max(pushDone, call[r].pushMark)
    /\ UNCHANGED <<isUserSettingsDirty, setCount, pushCount, eventPush, changes,
                   launchConfigurations, gatewayVars, evaluation>>

\* buildWorkspace: the build succeeded, or it failed and the user was asked
\* whether to proceed.
BuildWorkspaceReturns(r) ==
    /\ call[r].pc = "buildWorkspace"
    /\ \E built \in BOOLEAN, proceed \in BOOLEAN, e \in Editor(r) :
         LET c == IF built THEN call[r]
                  ELSE [call[r] EXCEPT !.prompts = @ + 1,
                                       !.started = @ \cup {"showErrorMessage(Build failed)"}]
         IN  IF ~built /\ ~proceed
             THEN Commit(r, Return(c, UNDEF, {}))
             ELSE Commit(r, afterBuildWorkspace(c, e))
    /\ UNCHANGED <<settingsVars, launchConfigurations, gatewayVars, evaluation>>

ResolveMainMethodReturns(r) ==
    /\ call[r].pc = "resolveMainMethod"
    /\ \E mainEntries \in EntryLists, e \in Tracker(r) :
         Commit(r, afterResolveMainMethod(call[r], mainEntries, e))
    /\ UNCHANGED <<settingsVars, launchConfigurations, gatewayVars, evaluation>>

ResolveMainClassReturns(r) ==
    /\ call[r].pc = "resolveMainClass"
    /\ \E res \in EntryLists, e \in Tracker(r) :
         Commit(r, promptMainClass([call[r] EXCEPT !.scanned =
                                        IF Len(res) = 0 THEN "empty" ELSE "found"],
                                   res, e))
    /\ UNCHANGED <<settingsVars, launchConfigurations, gatewayVars, evaluation>>

\* The user picks one of the options shown, or dismisses the pick.
ShowQuickPickReturns(r) ==
    /\ call[r].pc \in {"showQuickPick", "showQuickPickWithRecentlyUsed"}
    /\ \E i \in 0..Len(call[r].pending), e \in Tracker(r) :
         Commit(r, afterMainClass(call[r],
                                  IF i = 0 THEN <<>> ELSE << call[r].pending[i] >>, e))
    /\ UNCHANGED <<settingsVars, launchConfigurations, gatewayVars, evaluation>>

ValidationAnswers ==
    [mainClass : BOOLEAN, projectName : BOOLEAN, proposals : {<<>>, <<MainA, MainB>>}]

ValidateLaunchConfigReturns(r) ==
    /\ call[r].pc = "validateLaunchConfig"
    /\ \E response \in ValidationAnswers, e \in Tracker(r) :
         Commit(r, afterValidateLaunchConfig(
                       [call[r] EXCEPT !.validation =
                            IF response.mainClass /\ response.projectName THEN "valid"
                            ELSE IF response.projectName THEN "invalid mainClass"
                            ELSE IF response.mainClass THEN "invalid projectName"
                            ELSE "invalid mainClass and projectName",
                                       !.proposals = response.proposals],
                       response, e))
    /\ UNCHANGED <<settingsVars, launchConfigurations, gatewayVars, evaluation>>

\* The answer to the error message that offers "Fix".
FixPromptReturns(r) ==
    /\ call[r].pc = "showErrorMessageWithTroubleshooting"
    /\ \E answer \in {"Fix", UNDEF}, e \in Tracker(r) :
         IF answer = "Fix"
         THEN Commit(r, Await([call[r] EXCEPT !.prompts = @ + 1], "showQuickPickFix"))
         ELSE Commit(r, afterMainClass(call[r], <<>>, e))
    /\ UNCHANGED <<settingsVars, launchConfigurations, gatewayVars, evaluation>>

\* The proposal picked (or none), and persistMainClassOption up to its await.
FixPickReturns(r) ==
    /\ call[r].pc = "showQuickPickFix"
    /\ \E i \in 0..Len(call[r].pending), e \in Tracker(r) :
         LET selectedFix == IF i = 0 THEN <<>> ELSE << call[r].pending[i] >>
         IN  /\ Commit(r, afterSelectFix([call[r] EXCEPT !.selectedFix = selectedFix,
                                                         !.rawConfigs = launchConfigurations],
                                         selectedFix, launchConfigurations, e))
             /\ launchConfigurations' =
                  IF selectedFix = <<>> THEN launchConfigurations
                  ELSE persistMainClassOption(launchConfigurations, call[r].config, selectedFix[1])
    /\ UNCHANGED <<settingsVars, gatewayVars, evaluation>>

LaunchConfigurationsUpdateReturns(r) ==
    /\ call[r].pc = "launchConfigurations.update"
    /\ \E e \in Tracker(r) : Commit(r, afterMainClass(call[r], call[r].pending, e))
    /\ UNCHANGED <<settingsVars, launchConfigurations, gatewayVars, evaluation>>

ResolveClasspathReturns(r) ==
    /\ call[r].pc = "resolveClasspath"
    /\ \E answer \in ClasspathAnswers, e \in Tracker(r) :
         Commit(r, afterResolveClasspath(call[r], answer, e))
    /\ UNCHANGED <<settingsVars, launchConfigurations, gatewayVars, evaluation>>

ResolveJavaExecutableReturns(r) ==
    /\ call[r].pc = "resolveJavaExecutable"
    /\ \E e \in Tracker(r) :
         Commit(r, afterResolveJavaExecutable(call[r], "/jdk/bin/java", e))
    /\ UNCHANGED <<settingsVars, launchConfigurations, gatewayVars, evaluation>>

PopulateStepFiltersReturns(r) ==
    /\ call[r].pc = "populateStepFilters"
    /\ \E e \in Tracker(r) : Commit(r, afterPopulateStepFilters(call[r], e))
    /\ UNCHANGED <<settingsVars, launchConfigurations, gatewayVars, evaluation>>

DetectPreviewFlagReturns(r) ==
    /\ call[r].pc = "detectPreviewFlag"
    /\ \E flag \in BOOLEAN, e \in Tracker(r) :
         Commit(r, afterDetectPreviewFlag(call[r], flag, e))
    /\ UNCHANGED <<settingsVars, launchConfigurations, gatewayVars, evaluation>>

AddMoreHelpfulVMArgsReturns(r) ==
    /\ call[r].pc = "addMoreHelpfulVMArgs"
    /\ \E e \in Tracker(r) : Commit(r, afterHelpfulVMArgs(call[r], e))
    /\ UNCHANGED <<settingsVars, launchConfigurations, gatewayVars, evaluation>>

DetectLaunchCommandStyleReturns(r) ==
    /\ call[r].pc = "detectLaunchCommandStyle"
    /\ \E style \in {"none", "argfile"}, e \in Tracker(r) :
         Commit(r, afterCommandStyle([call[r] EXCEPT !.config.shortenCommandLine = style], e))
    /\ UNCHANGED <<settingsVars, launchConfigurations, gatewayVars, evaluation>>

ResolveJavaProcessReturns(r) ==
    /\ call[r].pc = "resolveJavaProcess"
    /\ \E javaProcess \in ProcessAnswers, e \in Tracker(r) :
         Commit(r, afterResolveJavaProcess(
                       [call[r] EXCEPT !.javaProcess = IF javaProcess = <<>> THEN UNDEF ELSE "found"],
                       javaProcess, e))
    /\ UNCHANGED <<settingsVars, launchConfigurations, gatewayVars, evaluation>>

\* An awaited call rejects (or throws before it is sent): the catch block.
\* A failed settings push is not among them: updateDebugSettings catches it.
AwaitedCallFails(r) ==
    /\ call[r].pc \in (AwaitPcs \ PromptPcs) \ {"JAVA_UPDATE_DEBUG_SETTINGS"}
    /\ \E ex \in RemoteErrors, e \in Tracker(r) :
         Commit(r, catchBlock([call[r] EXCEPT !.pushFailed = IF call[r].pc = "getJavaHome"
                                                              THEN "getJavaHome" ELSE @],
                              ex, e))
    /\ UNCHANGED <<settingsVars, launchConfigurations, gatewayVars, evaluation>>

\* ---- the editor's events

\* The reporters some call in flight holds, and the registered ones.
LiveReporters ==
    RegisteredIds \cup {call[r].progressReporter : r \in {q \in Calls : call[q].pc \in AwaitPcs}}

\* The user cancels a progress.
CancelRequested ==
    /\ \E id \in LiveReporters \ cancelled : Cancel(id)
    /\ UNCHANGED <<settingsVars, launchConfigurations, gatewayVars, evaluation>>

\* The cancellation token call r observes fires.
TokenFires(r) ==
    /\ call[r].pc \in AwaitPcs
    /\ call[r].token = "live"
    /\ Step(r, Marked([call[r] EXCEPT !.token = "fired"],
                      {call[r].progressReporter} \ cancelled),
            cancelled \cup {call[r].progressReporter})
    /\ UNCHANGED <<settingsVars, launchConfigurations, gatewayVars, evaluation>>

\* A variant of the observer that does not look at the debug session.
ConfigurationChanged_sessionBlind ==
    /\ changes < MaxChanges
    /\ \E affects \in BOOLEAN, activeDebugSession \in BOOLEAN :
         IF ~affects
         THEN UNCHANGED <<isUserSettingsDirty, setCount, eventPush, changes>>
         ELSE /\ changes' = changes + 1
              /\ isUserSettingsDirty' = TRUE
              /\ setCount' = IF activeDebugSession THEN setCount ELSE setCount + 1
              /\ UNCHANGED eventPush
    /\ UNCHANGED <<call, cancelled, pushCount, pushDone, launchConfigurations, gatewayVars, evaluation>>

\* vscode.workspace.onDidChangeConfiguration: the observer of the constructor.
\* affects: event.affectsConfiguration("java.debug"); activeDebugSession:
\* vscode.debug.activeDebugSession is set.
ConfigurationChanged ==
    /\ changes < MaxChanges
    /\ \E affects \in BOOLEAN, activeDebugSession \in BOOLEAN :
         IF ~affects
         THEN UNCHANGED <<isUserSettingsDirty, setCount, eventPush, changes>>
         ELSE /\ changes' = changes + 1
              /\ IF activeDebugSession
                 THEN /\ isUserSettingsDirty' = FALSE
                      /\ eventPush' = eventPush \cup {setCount}
                      /\ UNCHANGED setCount
                 ELSE /\ isUserSettingsDirty' = TRUE
                      /\ setCount' = setCount + 1
                      /\ UNCHANGED eventPush
    /\ UNCHANGED <<call, cancelled, pushCount, pushDone, launchConfigurations, gatewayVars, evaluation>>

\* updateDebugSettings(event), started by the observer, ends.
EventPushCompletes ==
    /\ \E m \in eventPush :
         /\ eventPush' = eventPush \ {m}
         /\ pushDone' = Max(pushDone, m)
    /\ UNCHANGED <<call, cancelled, isUserSettingsDirty, setCount, pushCount, changes,
                   launchConfigurations, gatewayVars, evaluation>>

\* -------------------------------------------------------- command gateway

JAVA_EXECUTE_WORKSPACE_COMMAND == "java.execute.workspaceCommand"

JAVA_RESOLVE_CLASSPATH == "vscode.java.resolveClasspath"

JAVA_BUILD_WORKSPACE == "java.workspace.compile"

\* The error the gateway throws; its message names the command.
JavaExtensionNotActivatedError(commandName) ==
    [type |-> "JavaExtensionNotActivatedError", command |-> commandName]

\* The promise vscode.commands.executeCommand makes: not settled, fulfilled
\* with a result, or rejected with a failure.
Pending == [kind |-> "pending", value |-> ""]

Settlements ==
    {[kind |-> "result", value |-> "ok"], [kind |-> "failure", value |-> "request failed"]}

\* vscode.commands.executeCommand(commandName, ...rest): what goes on the bus.
executeCommand(commandName, rest) ==
    [command |-> commandName, args |-> rest, promise |-> Pending]

\* A variant of the gateway that dispatches without looking at the host.
executeJavaExtensionCommand_unchecked(isJavaExtEnabled, commandName, rest) ==
    [thrown |-> <<>>, dispatched |-> << executeCommand(commandName, rest) >>]

\* The gateway's two functions: what they throw, what they dispatch.
executeJavaExtensionCommand(isJavaExtEnabled, commandName, rest) ==
    IF ~isJavaExtEnabled
    THEN [thrown |-> << JavaExtensionNotActivatedError(commandName) >>, dispatched |-> <<>>]
    ELSE [thrown |-> <<>>, dispatched |-> << executeCommand(commandName, rest) >>]

executeJavaLanguageServerCommand(isJavaExtEnabled, rest) ==
    IF ~isJavaExtEnabled
    THEN [thrown |-> << JavaExtensionNotActivatedError(JAVA_EXECUTE_WORKSPACE_COMMAND) >>,
          dispatched |-> <<>>]
    ELSE [thrown |-> <<>>,
          dispatched |-> << executeCommand(JAVA_EXECUTE_WORKSPACE_COMMAND, rest) >>]

\* No invocation yet.
NoInvocation ==
    [via |-> "none", commandName |-> "", rest |-> <<>>, enabled |-> FALSE,
     thrown |-> <<>>, sentBefore |-> 0, sentAfter |-> 0, returned |-> 0]

\* How many commands a behaviour dispatches.
MaxBus == 2

\* The argument lists the gateway is called with.
ArgumentLists == {<<>>, <<"a.Main", "p">>}

\* The gateway returned or threw: the bus holds what it dispatched, and the
\* caller holds the promise the bus made (returned: its place on the bus).
Invoked(via, commandName, rest, outcome) ==
    /\ Len(commandBus) < MaxBus
    /\ commandBus' = commandBus \o outcome.dispatched
    /\ invocation' = [via |-> via, commandName |-> commandName, rest |-> rest,
                      enabled |-> javaExtEnabled, thrown |-> outcome.thrown,
                      sentBefore |-> Len(commandBus),
                      sentAfter |-> Len(commandBus) + Len(outcome.dispatched),
                      returned |-> IF outcome.dispatched = <<>> THEN 0
                                   ELSE Len(commandBus) + 1]
    /\ UNCHANGED <<call, cancelled, settingsVars, launchConfigurations, javaExtEnabled,
                   evaluation>>

LanguageServerCommandInvoked ==
    \E command \in {JAVA_RESOLVE_CLASSPATH}, rest \in ArgumentLists :
        Invoked("executeJavaLanguageServerCommand", JAVA_EXECUTE_WORKSPACE_COMMAND,
                <<command>> \o rest,
                executeJavaLanguageServerCommand(javaExtEnabled, <<command>> \o rest))

ExtensionCommandInvoked ==
    \E commandName \in {JAVA_BUILD_WORKSPACE}, rest \in ArgumentLists :
        Invoked("executeJavaExtensionCommand", commandName, rest,
                executeJavaExtensionCommand(javaExtEnabled, commandName, rest))

\* The command bus settles a promise it made.
CommandSettles ==
    /\ \E k \in 1..Len(commandBus), settlement \in Settlements :
         /\ commandBus[k].promise = Pending
         /\ commandBus' = [commandBus EXCEPT ![k].promise = settlement]
    /\ UNCHANGED <<call, cancelled, settingsVars, launchConfigurations, evaluation,
                   javaExtEnabled, invocation>>

\* The Java extension is enabled, or disabled.
JavaExtensionToggles ==
    /\ javaExtEnabled' = ~javaExtEnabled
    /\ UNCHANGED <<call, cancelled, settingsVars, launchConfigurations, evaluation,
                   commandBus, invocation>>

\* ---- the helpers of the provider, called on their own

NoEvaluation == [fn |-> "none"]

\* The longest stored list.
MaxStored == 3

\* The configurations a stored list is made of, and persistLaunchConfig is
\* called with.
StoredConfigs == {StoredLaunch, StoredAttach, StoredBare}

\* persistLaunchConfig(folder, oldConfig, newConfig), the awaited update
\* having succeeded.
PersistLaunchConfigCalled ==
    /\ \E oldConfig \in StoredConfigs, newConfig \in StoredConfigs :
         /\ launchConfigurations' =
                persistLaunchConfig(launchConfigurations, oldConfig, newConfig)
         /\ evaluation' = [fn |-> "persistLaunchConfig",
                           rawConfigs |-> launchConfigurations,
                           oldConfig |-> oldConfig, newConfig |-> newConfig,
                           updates |-> IF findIndex(launchConfigurations, oldConfig) > 0
                                       THEN 1 ELSE 0]
    /\ UNCHANGED <<call, cancelled, settingsVars, gatewayVars>>

\* ---- args and vmArgs. A string is the sequence of its characters.

\* The longest args array, and how often a configuration is resolved.
MaxArgs == 2

MaxResolutions == 2

\* A variant that wraps without escaping.
wrap_unescaped(str) ==
    IF \E i \in 1..Len(str) : str[i] \in {"\"", " ", "\t"}
    THEN <<"\"">> \o str \o <<"\"">>
    ELSE str

\* The callback concatArgs maps over the arguments, for String(arg) = str:
\* /["\s]/.test(str) ? "\"" + str.replace(/(["\\])/g, "\\$1") + "\"" : str
wrap(str) ==
    LET RECURSIVE replace(_)
        replace(t) ==
            IF t = <<>> THEN <<>>
            ELSE (IF Head(t) \in {"\"", "\\"} THEN <<"\\", Head(t)>> ELSE <<Head(t)>>)
                 \o replace(Tail(t))
    IN  IF \E i \in 1..Len(str) : str[i] \in {"\"", " ", "\t"}
        THEN <<"\"">> \o replace(str) \o <<"\"">>
        ELSE str

\* _.join(_.map(args, callback), " ")
concatArgs(args) ==
    LET RECURSIVE join(_)
        join(strs) ==
            IF strs = <<>> THEN <<>>
            ELSE IF Len(strs) = 1 THEN strs[1]
            ELSE strs[1] \o <<" ">> \o join(Tail(strs))
    IN  join([i \in 1..Len(args) |-> wrap(args[i])])

\* One resolution's treatment of config.args (config.vmArgs is treated the
\* same): if (Array.isArray(config.args)) config.args = this.concatArgs(config.args)
ArgsResolved ==
    /\ evaluation.fn = "args"
    /\ evaluation.resolutions < MaxResolutions
    /\ evaluation' =
          IF evaluation.isArray
          THEN [evaluation EXCEPT !.args = concatArgs(@), !.isArray = FALSE,
                                  !.resolutions = @ + 1]
          ELSE [evaluation EXCEPT !.resolutions = @ + 1]
    /\ UNCHANGED <<call, cancelled, settingsVars, launchConfigurations, gatewayVars>>

\* ---- the platform block

\* mergePlatformProperties(config) of one resolution: the keys are copied,
\* then config[platformName] = undefined.
PlatformPropertiesMerged ==
    /\ evaluation.fn = "mergePlatformProperties"
    /\ evaluation.resolutions < MaxResolutions
    /\ evaluation' =
          [evaluation EXCEPT !.config = mergePlatformProperties(@, evaluation.block),
                             !.block = NoBlock,
                             !.resolutions = @ + 1]
    /\ UNCHANGED <<call, cancelled, settingsVars, launchConfigurations, gatewayVars>>

\* ---- the main classes of the workspace, put in order for the user

MaxCandidates == 3

\* a > b on two strings, each a sequence of characters: the first character
\* that differs decides, by its code unit, and a proper prefix is the smaller.
RECURSIVE greater(_, _)
greater(a, b) ==
    LET charCode == [ch \in {"2", "<", ">", "M", "p", "q"} |->
                        CASE ch = "2" -> 50 [] ch = "<" -> 60 [] ch = ">" -> 62
                          [] ch = "M" -> 77 [] ch = "p" -> 112 [] OTHER -> 113]
    IN  IF a = <<>> THEN FALSE
        ELSE IF b = <<>> THEN TRUE
        ELSE IF Head(a) = Head(b) THEN greater(Tail(a), Tail(b))
        ELSE charCode[Head(a)] > charCode[Head(b)]

\* res.map(...).sort((a, b) => a.label > b.label ? 1 : -1): each item under
\* its label, mainClass followed by <projectName> when the item has a
\* projectName, and `at` its place in res. The comparator orders two
\* different labels and never answers 0, so the order of items of equal
\* label is the engine's choice: every arrangement with no label before a
\* smaller one is an outcome.
sort(res) ==
    LET label(item) == IF "projectName" \notin DOMAIN item THEN item.mainClass
                       ELSE item.mainClass \o <<"<">> \o item.projectName \o <<">">>
        pickItems == [i \in 1..Len(res) |-> [label |-> label(res[i]), item |-> res[i], at |-> i]]
    IN  {[i \in 1..Len(res) |-> pickItems[p[i]]] : p \in
            {q \in Permutations(1..Len(res)) :
                \A i, j \in 1..Len(res) :
                    i < j => ~greater(pickItems[q[i]].label, pickItems[q[j]].label)}}

\* A variant that ignores case on every platform.
narrow_ignoringCase(pickItems, fileName, os) ==
    LET toLowerCase(f) == IF f = "/A" THEN "/a" ELSE f
    IN  SelectSeq(pickItems,
                  LAMBDA o : fileName # "" /\ toLowerCase(o.item.filePath) = toLowerCase(fileName))

\* narrowedChoice: the pick items whose filePath is the active editor's
\* fileName ("" when there is no editor), or is it but for the case of its
\* letters on win32.
narrow(pickItems, fileName, os) ==
    LET toLowerCase(f) == IF f = "/A" THEN "/a" ELSE f
    IN  SelectSeq(pickItems,
                  LAMBDA o : /\ fileName # ""
                             /\ \/ o.item.filePath = fileName
                                \/ /\ os = "win32"
                                   /\ toLowerCase(o.item.filePath) = toLowerCase(fileName))

\* chooseMainClass, after resolveMainClass answered res: no candidate is an
\* error message; the only candidate of the active editor's file is taken;
\* several candidates are put before the user; a single one is taken.
ChooseMainClass ==
    /\ evaluation.fn = "chooseMainClass"
    /\ evaluation.outcome = "resolveMainClass"
    /\ \E pickItems \in sort(evaluation.res), fileName \in {"", "/a", "/A", "/b"},
          os \in {"linux", "win32"} :
         LET narrowedChoice == narrow(pickItems, fileName, os)
             read == [evaluation EXCEPT !.fileName = fileName, !.platform = os]
         IN  evaluation' =
               IF Len(evaluation.res) = 0
               THEN [read EXCEPT !.outcome = "showErrorMessage"]
               ELSE IF Len(narrowedChoice) = 1
               THEN [read EXCEPT !.outcome = "return", !.pickItems = pickItems,
                                 !.selection = << narrowedChoice[1].item >>]
               ELSE IF Len(pickItems) > 1
               THEN [read EXCEPT !.outcome = "showQuickPick", !.pickItems = pickItems]
               ELSE [read EXCEPT !.outcome = "return", !.pickItems = pickItems,
                                 !.selection = << pickItems[1].item >>]
    /\ UNCHANGED <<call, cancelled, settingsVars, launchConfigurations, gatewayVars>>

\* ---- provideDebugConfigurations

defaultLaunchConfig ==
    [type |-> "java", name |-> <<"Debug (Launch) - Current File">>, request |-> "launch",
     mainClass |-> <<"${file}">>]

\* "Debug (Launch)-", the part of mainClass after its last ".", and
\* <projectName> when the item has a projectName.
baseName(item) ==
    LET dots == {i \in 1..Len(item.mainClass) : item.mainClass[i] = "."}
        last == IF dots = {} THEN 0 ELSE CHOOSE i \in dots : \A j \in dots : j <= i
        name == <<"Debug (Launch)-">> \o SubSeq(item.mainClass, last + 1, Len(item.mainClass))
    IN  IF "projectName" \in DOMAIN item
        THEN name \o <<"<">> \o item.projectName \o <<">">>
        ELSE name

\* A variant that does not count the names it has given.
constructLaunchConfigName_uncounted(item, cache) ==
    [name |-> baseName(item), cache |-> cache]

\* constructLaunchConfigName: the name, and the cache as the call leaves it.
constructLaunchConfigName(item, cache) ==
    LET name == baseName(item)
    IN  IF name \notin DOMAIN cache
        THEN [name |-> name, cache |-> (name :> 0) @@ cache]
        ELSE [name |-> name \o <<"(", ToString(cache[name] + 1), ")">>,
              cache |-> [cache EXCEPT ![name] = @ + 1]]

\* mainClasses.map(...), from item i on, with the cache as it stands.
RECURSIVE launchConfigs(_, _, _)
launchConfigs(mainClasses, i, cache) ==
    IF i > Len(mainClasses) THEN <<>>
    ELSE LET named == constructLaunchConfigName(mainClasses[i], cache)
             given == [k \in DOMAIN mainClasses[i] \ {"filePath"} |-> mainClasses[i][k]]
         IN  << given @@ [defaultLaunchConfig EXCEPT !.name = named.name] >>
                \o launchConfigs(mainClasses, i + 1, named.cache)

\* The promise is resolved with list, and the finally block has run.
resolve(ev, list) ==
    [ev EXCEPT !.pc = "resolved", !.result = list, !.cancelCalls = @ + 1]

\* A variant without the test of the tracker after the main classes.
afterProvideMainClasses_unchecked(ev, mainClasses) ==
    resolve([ev EXCEPT !.mainClasses = mainClasses],
            <<defaultLaunchConfig>> \o launchConfigs(mainClasses, 1, <<>>))

\* provideDebugConfigurationsAsync after lsPlugin.resolveMainClass answered.
afterProvideMainClasses(ev, mainClasses) ==
    IF ev.cancelled
    THEN resolve([ev EXCEPT !.mainClasses = mainClasses], <<defaultLaunchConfig>>)
    ELSE resolve([ev EXCEPT !.mainClasses = mainClasses],
                 <<defaultLaunchConfig>> \o launchConfigs(mainClasses, 1, <<>>))

\* The tracker of the call is cancelled (by the token it observes, or by
\* the user) while the call is suspended.
ProvideCancelRequested ==
    /\ evaluation.fn = "provideDebugConfigurations"
    /\ evaluation.pc \in {"waitForStandardMode", "resolveMainClass"}
    /\ ~evaluation.cancelled
    /\ evaluation' = [evaluation EXCEPT !.cancelled = TRUE]
    /\ UNCHANGED <<call, cancelled, settingsVars, launchConfigurations, gatewayVars>>

ProvideStandardModeAnswers ==
    /\ evaluation.fn = "provideDebugConfigurations"
    /\ evaluation.pc = "waitForStandardMode"
    /\ \E isOnStandardMode \in BOOLEAN :
         LET ev == [evaluation EXCEPT !.isOnStandardMode = isOnStandardMode]
         IN  evaluation' =
               IF ~isOnStandardMode \/ ev.cancelled
               THEN resolve(ev, <<defaultLaunchConfig>>)
               ELSE [ev EXCEPT !.pc = "resolveMainClass"]
    /\ UNCHANGED <<call, cancelled, settingsVars, launchConfigurations, gatewayVars>>

ProvideMainClassesAnswer ==
    /\ evaluation.fn = "provideDebugConfigurations"
    /\ evaluation.pc = "resolveMainClass"
    /\ LET Names == {<<"a", ".", "M">>, <<"b", ".", "M">>, <<"M">>}
           Items == [mainClass : Names, filePath : {"/a"}]
                      \cup [mainClass : Names, projectName : {<<"p">>}, filePath : {"/a"}]
       IN  \E mainClasses \in UNION {[1..n -> Items] : n \in 0..MaxCandidates} :
              evaluation' = afterProvideMainClasses(evaluation, mainClasses)
    /\ UNCHANGED <<call, cancelled, settingsVars, launchConfigurations, gatewayVars>>

\* An awaited call of provideDebugConfigurationsAsync fails: the catch block
\* guides to the Java extension or logs, and resolves with the default.
ProvideCallFails ==
    /\ evaluation.fn = "provideDebugConfigurations"
    /\ evaluation.pc \in {"waitForStandardMode", "resolveMainClass"}
    /\ \E ex \in RemoteErrors :
         evaluation' =
            resolve([evaluation EXCEPT !.failed = ex.type,
                                       !.guided = (ex.type = "JavaExtensionNotEnabledError")],
                    <<defaultLaunchConfig>>)
    /\ UNCHANGED <<call, cancelled, settingsVars, launchConfigurations, gatewayVars>>

\* ---- the java.debug.startDebugSession command of activate()

\* A variant whose finally block leaves status.debugging as it is.
leave_keepsMarker(ev, i) == [ev EXCEPT !.inv[i].pc = "done"]

\* The handler returns or its catch block has caught: finally, delete
\* status.debugging.
leave(ev, i) == [ev EXCEPT !.debugging = FALSE, !.inv[i].pc = "done"]

\* The handler after the log level was set, or could not be set: what it
\* does with the configuration it was given. calls counts the calls,
\* prompts and messages the invocation has made.
afterConfigLogLevel(ev, i) ==
    LET config == ev.inv[i].config
        await(pc) == [ev EXCEPT !.inv[i].pc = pc, !.inv[i].calls = @ + 1]
        message == [ev EXCEPT !.inv[i].calls = @ + 1]
    IN  IF config = "{}" THEN await("showInformationMessage")
        ELSE IF config \in {"launch", "launch, mainClass", "launch, mainClass, classPaths"}
        THEN IF config = "launch" THEN leave(message, i)
             ELSE IF config = "launch, mainClass" THEN await("resolveClasspath")
             ELSE await("startDebugSession")
        ELSE IF config \in {"attach", "attach, hostName, port"}
        THEN IF config = "attach" THEN leave(message, i)
             ELSE await("startDebugSession")
        ELSE await("showErrorMessage")

\* The command is invoked with a configuration: with status.debugging set
\* the handler does nothing; otherwise it sets it and sets the log level.
StartInvoked(i) ==
    /\ evaluation.fn = "startDebugSession"
    /\ evaluation.inv[i].pc = "idle"
    /\ \E config \in {"{}", "launch", "launch, mainClass", "launch, mainClass, classPaths",
                       "attach", "attach, hostName, port", "other"} :
         evaluation' =
            IF evaluation.debugging
            THEN [evaluation EXCEPT !.inv[i] = [pc |-> "ignored", config |-> config, calls |-> 0]]
            ELSE [evaluation EXCEPT !.debugging = TRUE,
                                    !.inv[i] = [pc |-> "configLogLevel", config |-> config,
                                                calls |-> 1]]
    /\ UNCHANGED <<call, cancelled, settingsVars, launchConfigurations, gatewayVars>>

\* configLogLevel answers or fails; its failure is logged by the inner catch.
ConfigLogLevelSettles(i) ==
    /\ evaluation.fn = "startDebugSession"
    /\ evaluation.inv[i].pc = "configLogLevel"
    /\ evaluation' = afterConfigLogLevel(evaluation, i)
    /\ UNCHANGED <<call, cancelled, settingsVars, launchConfigurations, gatewayVars>>

\* The user answers the launch.json question or the unsupported-request
\* message, or dismisses it.
StartPromptAnswers(i) ==
    /\ evaluation.fn = "startDebugSession"
    /\ evaluation.inv[i].pc \in {"showInformationMessage", "showErrorMessage"}
    /\ \E ans \in {"Yes", "No", "Open launch.json", UNDEF} :
         evaluation' =
            IF evaluation.inv[i].pc = "showInformationMessage"
            THEN leave([evaluation EXCEPT !.inv[i].calls = IF ans = "Yes" THEN @ + 1 ELSE @], i)
            ELSE IF ans = "Open launch.json"
            THEN [evaluation EXCEPT !.inv[i].pc = "executeCommand", !.inv[i].calls = @ + 1]
            ELSE leave(evaluation, i)
    /\ UNCHANGED <<call, cancelled, settingsVars, launchConfigurations, gatewayVars>>

StartResolveClasspathAnswers(i) ==
    /\ evaluation.fn = "startDebugSession"
    /\ evaluation.inv[i].pc = "resolveClasspath"
    /\ \E classPaths \in {<<>>, <<"bin">>} :
         evaluation' =
            IF Len(classPaths) = 0
            THEN leave([evaluation EXCEPT !.inv[i].calls = @ + 1], i)
            ELSE [evaluation EXCEPT !.inv[i].pc = "startDebugSession", !.inv[i].calls = @ + 1]
    /\ UNCHANGED <<call, cancelled, settingsVars, launchConfigurations, gatewayVars>>

StartDebugSessionAnswers(i) ==
    /\ evaluation.fn = "startDebugSession"
    /\ evaluation.inv[i].pc = "startDebugSession"
    /\ \E debugServerPort \in {0, 5005} :
         evaluation' =
            IF debugServerPort # 0
            THEN [evaluation EXCEPT !.inv[i].pc = "executeCommand", !.inv[i].calls = @ + 1]
            ELSE leave(evaluation, i)
    /\ UNCHANGED <<call, cancelled, settingsVars, launchConfigurations, gatewayVars>>

\* vscode.commands.executeCommand (add a configuration, or start debugging)
\* answers.
StartCommandAnswers(i) ==
    /\ evaluation.fn = "startDebugSession"
    /\ evaluation.inv[i].pc = "executeCommand"
    /\ evaluation' = leave(evaluation, i)
    /\ UNCHANGED <<call, cancelled, settingsVars, launchConfigurations, gatewayVars>>

\* An awaited call of the outer try block fails: catch (ex) {}, then finally.
StartAwaitFails(i) ==
    /\ evaluation.fn = "startDebugSession"
    /\ evaluation.inv[i].pc \in {"showInformationMessage", "showErrorMessage", "resolveClasspath",
                                  "startDebugSession", "executeCommand"}
    /\ evaluation' = leave(evaluation, i)
    /\ UNCHANGED <<call, cancelled, settingsVars, launchConfigurations, gatewayVars>>

\* The editor has the handler's promise settled; the slot is free again.
StartInvocationEnds(i) ==
    /\ evaluation.fn = "startDebugSession"
    /\ evaluation.inv[i].pc \in {"done", "ignored"}
    /\ evaluation' = [evaluation EXCEPT !.inv[i] = [pc |-> "idle", config |-> "{}", calls |-> 0]]
    /\ UNCHANGED <<call, cancelled, settingsVars, launchConfigurations, gatewayVars>>

\* ------------------------------------------------------- specifications

\* The provider as constructed, nothing called yet.
Constructed ==
    /\ call = [r \in Calls |-> IdleCall]
    /\ cancelled = {}
    /\ isUserSettingsDirty = TRUE
    /\ setCount = 1
    /\ pushCount = 0
    /\ pushDone = 0
    /\ eventPush = {}
    /\ changes = 0
    /\ javaExtEnabled = TRUE
    /\ commandBus = <<>>
    /\ invocation = NoInvocation

Init ==
    /\ Constructed
    /\ launchConfigurations = <<StoredLaunch, StoredAttach, StoredBare>>
    /\ evaluation = NoEvaluation

\* What a call in flight does next.
Resume(r) ==
    \/ WaitForStandardModeReturns(r)
    \/ GetJavaHomeReturns(r)
    \/ UpdateDebugSettingsReturns(r)
    \/ BuildWorkspaceReturns(r)
    \/ ResolveMainMethodReturns(r)
    \/ ResolveMainClassReturns(r)
    \/ ShowQuickPickReturns(r)
    \/ ValidateLaunchConfigReturns(r)
    \/ FixPromptReturns(r)
    \/ FixPickReturns(r)
    \/ LaunchConfigurationsUpdateReturns(r)
    \/ ResolveClasspathReturns(r)
    \/ ResolveJavaExecutableReturns(r)
    \/ PopulateStepFiltersReturns(r)
    \/ DetectPreviewFlagReturns(r)
    \/ AddMoreHelpfulVMArgsReturns(r)
    \/ DetectLaunchCommandStyleReturns(r)
    \/ ResolveJavaProcessReturns(r)
    \/ AwaitedCallFails(r)

\* One resolution at a time, over every input; the settings stay as they are.
Next ==
    \/ Start(1)
    \/ Resume(1)
    \/ CallEnds(1)
    \/ TokenFires(1)
    \/ CancelRequested

Spec == Init /\ [][Next]_vars

\* ---- two resolutions in flight together, and settings changes

\* A launch resolution in slot 1 and an attach resolution in slot 2, each
\* called without a cancellation token and started once.
ConcurrentLaunch ==
    {<<[Named("launch") EXCEPT !.mainClass = "a.Main", !.projectName = "p",
                               !.classPaths = <<"lib.jar">>,
                               !.shortenCommandLine = "argfile"], NoBlock>>}

ConcurrentAttach ==
    {<<StoredAttach, NoBlock>>,
     <<[Named("attach") EXCEPT !.processId = "12345"], NoBlock>>}

\* The stretches both kinds of resolution go through.
Shared(r) ==
    \/ WaitForStandardModeReturns(r)
    \/ GetJavaHomeReturns(r)
    \/ UpdateDebugSettingsReturns(r)
    \/ PopulateStepFiltersReturns(r)
    \/ AwaitedCallFails(r)

NextConcurrent ==
    \/ StartWith(1, ConcurrentLaunch, {"none"})
    \/ Shared(1)
    \/ BuildWorkspaceReturns(1)
    \/ ValidateLaunchConfigReturns(1)
    \/ FixPromptReturns(1)
    \/ FixPickReturns(1)
    \/ ResolveJavaExecutableReturns(1)
    \/ DetectPreviewFlagReturns(1)
    \/ AddMoreHelpfulVMArgsReturns(1)
    \/ StartWith(2, ConcurrentAttach, {"none"})
    \/ Shared(2)
    \/ ResolveJavaProcessReturns(2)
    \/ ConfigurationChanged
    \/ EventPushCompletes

Concurrent == Init /\ [][NextConcurrent]_vars

\* ---- two attach resolutions in flight together, given the same __progressId
\* or none

NextSameProgress ==
    \E r \in Calls :
        \/ StartWith(r, {<<[StoredAttach EXCEPT !.progressId = "p1"], NoBlock>>,
                         <<StoredAttach, NoBlock>>}, {"none"})
        \/ Shared(r)

SameProgress == Init /\ [][NextSameProgress]_vars

\* ---- the command gateway alone

NextGateway ==
    \/ LanguageServerCommandInvoked
    \/ ExtensionCommandInvoked
    \/ CommandSettles
    \/ JavaExtensionToggles

Gateway == Init /\ [][NextGateway]_vars

\* ---- persistLaunchConfig alone, over every stored list

InitPersisting ==
    /\ Constructed
    /\ launchConfigurations \in UNION {[1..n -> StoredConfigs] : n \in 0..MaxStored}
    /\ evaluation = NoEvaluation

Persisting == InitPersisting /\ [][PersistLaunchConfigCalled]_vars

\* ---- the args of a configuration, resolved and resolved again

\* args is an array of up to MaxArgs strings of up to two characters, or
\* one such string.
InitQuoting ==
    LET Chars == {"a", " ", "\t", "\"", "\\"}
        Strings == {<<>>} \cup {<<a>> : a \in Chars} \cup {<<a, b>> : a, b \in Chars}
        Arrays == UNION {[1..n -> Strings] : n \in 0..MaxArgs}
    IN  /\ Constructed
        /\ launchConfigurations = <<>>
        /\ \/ evaluation \in {[fn |-> "args", given |-> a, wasArray |-> TRUE,
                                args |-> a, isArray |-> TRUE, resolutions |-> 0]
                                   : a \in Arrays}
           \/ evaluation \in {[fn |-> "args", given |-> a, wasArray |-> FALSE,
                                args |-> a, isArray |-> FALSE, resolutions |-> 0]
                                   : a \in Strings}

Quoting == InitQuoting /\ [][ArgsResolved]_vars

\* ---- a configuration and its platform block, merged and merged again

InitMerging ==
    /\ Constructed
    /\ launchConfigurations = <<>>
    /\ evaluation \in {[fn |-> "mergePlatformProperties",
                         given |-> c, givenBlock |-> b,
                         config |-> c, block |-> b, resolutions |-> 0]
                            : c \in InputConfigs,
                              b \in {NoBlock, MainClassBlock, HostBlock}}

Merging == InitMerging /\ [][PlatformPropertiesMerged]_vars

\* ---- chooseMainClass over every answer of up to MaxCandidates main classes

InitChoosing ==
    LET Candidates ==
            [mainClass : {<<"M">>, <<"M", "2">>}, filePath : {"/a", "/A", "/b"}]
              \cup [mainClass : {<<"M">>, <<"M", "2">>}, projectName : {<<"p">>},
                    filePath : {"/a", "/A", "/b"}]
    IN  /\ Constructed
        /\ launchConfigurations = <<>>
        /\ evaluation \in {[fn |-> "chooseMainClass", res |-> res,
                             outcome |-> "resolveMainClass",
                             fileName |-> "", platform |-> platform,
                             pickItems |-> <<>>, selection |-> <<>>]
                                : res \in UNION {[1..n -> Candidates] : n \in 0..MaxCandidates}}

Choosing == InitChoosing /\ [][ChooseMainClass]_vars

\* ---- provideDebugConfigurations, called with a token that has fired or not

InitProviding ==
    /\ Constructed
    /\ launchConfigurations = <<>>
    /\ evaluation \in [fn : {"provideDebugConfigurations"}, pc : {"waitForStandardMode"},
                        cancelled : BOOLEAN, isOnStandardMode : {FALSE},
                        mainClasses : {<<>>}, failed : {"none"}, guided : {FALSE},
                        result : {<<>>}, cancelCalls : {0}]

\* ---- the start command, invoked up to twice together, again and again

InitStarting ==
    /\ Constructed
    /\ launchConfigurations = <<>>
    /\ evaluation = [fn |-> "startDebugSession", debugging |-> FALSE,
                     inv |-> [i \in Calls |-> [pc |-> "idle", config |-> "{}", calls |-> 0]]]

Starting ==
    InitStarting /\ [][\E i \in Calls : \/ StartInvoked(i)
                                         \/ ConfigLogLevelSettles(i)
                                         \/ StartPromptAnswers(i)
                                         \/ StartResolveClasspathAnswers(i)
                                         \/ StartDebugSessionAnswers(i)
                                         \/ StartCommandAnswers(i)
                                         \/ StartAwaitFails(i)
                                         \/ StartInvocationEnds(i)]_vars

Providing ==
    InitProviding /\ [][\/ ProvideCancelRequested
                        \/ ProvideStandardModeAnswers
                        \/ ProvideMainClassesAnswer
                        \/ ProvideCallFails]_vars

\* ------------------------------------------------------------ properties

\* The calls that have ended.
Ended == {r \in Calls : call[r].pc = "done"}

\* C1 as stated: every call that obtained or created a reporter has
\* disposed of it, by exactly one cancel() of its own, when it ends, the
\* early return right after observe(token) included.
C1_DisposedExactlyOnce ==
    \A r \in Ended : call[r].progressReporter # "none" => call[r].cancelCalls = 1

\* A call ended by the early return: it holds a reporter and never entered
\* the try block.
C1_EarlyReturn ==
    \E r \in Ended : call[r].progressReporter # "none" /\ call[r].cancelCalls = 0

\* C2 as stated: a call whose tracker became cancelled while it was
\* suspended inside the launch or attach pipeline returns undefined and
\* shows no message from then on, whatever the suspended call returned.
C2_CancelledWhileSuspendedIsSilent ==
    \A r \in Ended :
        call[r].lateCancel /\ call[r].raised \in {"none", "UserError"}
            => /\ call[r].result = UNDEF
               /\ \A m \in call[r].shown : ~m.afterCancel

\* A call cancelled while suspended inside the pipeline whose awaited call
\* then returned, and which has ended.
C2_CancelledWhileSuspended ==
    \E r \in Ended : call[r].lateCancel /\ call[r].raised \in {"none", "UserError"}

\* The launch-ready invariant and the attach-ready invariant.
LaunchReady(config) ==
    /\ config.request = "launch"
    /\ config.classPaths # <<>> \/ config.modulePaths # <<>>
    /\ config.mainClass # "" /\ ~isFile(config.mainClass)
    /\ config.javaExec # UNDEF

AttachReady(config) ==
    /\ config.request = "attach"
    /\ config.hostName # "" /\ config.port # 0
    /\ config.processId = UNDEF

\* The ended calls given a launch configuration with mainClass, classPaths
\* and modulePaths all empty.
EndedBareLaunch ==
    {r \in Ended : /\ call[r].orig.request = "launch"
                   /\ call[r].orig.mainClass = ""
                   /\ call[r].orig.classPaths = <<>>
                   /\ call[r].orig.modulePaths = <<>>}

ShownUserError(c) ==
    \E m \in c.shown : m.via = "showErrorMessageWithTroubleshooting" /\ m.what = "UserError"

Attaching == {r \in Calls : call[r].dispatched /\ call[r].config.request = "attach"}

HasHostPort(config) == config.hostName # "" /\ config.port # 0

\* What C4 says of a configuration that supplies hostName, port and processId.
AllThreeSupplied(c) ==
    HasHostPort(c.orig) /\ c.orig.processId # UNDEF
        => /\ c.attachPath = {"hostPort"}
           /\ c.config.processId = UNDEF
           /\ c.config.hostName = c.orig.hostName
           /\ c.config.port = c.orig.port
           /\ c.resolverCalls = 0

\* C4, amended: an attach configuration takes at most one of the two paths,
\* and one of them exactly when hostName and port are both set or processId
\* is defined; with all three supplied it is the hostName+port path, which
\* clears processId, keeps hostName and port and never calls the resolver.
C4_AtMostOnePath ==
    \A r \in Attaching :
        /\ Cardinality(call[r].attachPath) <= 1
        /\ call[r].attachPath # {}
              <=> (HasHostPort(call[r].orig) \/ call[r].orig.processId # UNDEF)
        /\ AllThreeSupplied(call[r])

\* An attach call given all three fields has returned its configuration.
C4_AllThreeResolved ==
    \E r \in Attaching \cap Ended :
        /\ HasHostPort(call[r].orig) /\ call[r].orig.processId # UNDEF
        /\ call[r].result = "config"

\* C4 as stated: every attach configuration takes exactly one path.
C4_ExactlyOnePath ==
    \A r \in Attaching :
        /\ Cardinality(call[r].attachPath) = 1
        /\ AllThreeSupplied(call[r])

\* C5: every attach configuration a call returns is attach-ready.
C5_ReturnedAttachIsReady ==
    \A r \in Ended :
        call[r].result = "config" /\ call[r].config.request = "attach"
            => AttachReady(call[r].config)

\* An attach configuration was returned after the resolver found its process.
C5_ReturnedAfterResolver ==
    \E r \in Ended :
        /\ call[r].result = "config" /\ call[r].config.request = "attach"
        /\ call[r].javaProcess = "found"

\* C6: when the resolver finds no process for a numeric processId (hostName
\* and port not both set), the call ends with undefined, has shown the
\* error that names the pid and the VM flag to use, and has left hostName,
\* port and processId as they were.
C6_NoProcessFound ==
    \A r \in Calls :
        call[r].javaProcess = UNDEF
            => /\ call[r].pc = "done" /\ call[r].result = UNDEF
               /\ ~HasHostPort(call[r].orig) /\ Number(call[r].orig.processId) # NaN
               /\ \E m \in call[r].shown :
                     /\ m.via = "showErrorMessage" /\ m.what = NotDebuggable
                     /\ m.about = call[r].orig.processId
               /\ call[r].config.hostName = call[r].orig.hostName
               /\ call[r].config.port = call[r].orig.port
               /\ call[r].config.processId = call[r].orig.processId

\* The resolver answered that there is no such process.
C6_ResolverFoundNothing ==
    \E r \in Calls : call[r].javaProcess = UNDEF /\ call[r].resolverCalls = 1

ShownGeneric(c) ==
    \E m \in c.shown : m.via = "showErrorMessageWithTroubleshooting" /\ m.what = "Error"

ShownInstallGuide(c) ==
    \E m \in c.shown : m.via = "guideToInstallJavaExtension"

\* C7, amended: no exception reaches the caller; a UserError is shown with
\* troubleshooting, a JavaExtensionNotEnabledError leads to the guide to
\* install the Java extension, any other error is shown generically, and
\* the result is undefined in all three cases.
C7_NothingEscapes ==
    \A r \in Calls :
        /\ call[r].result # "rejected"
        /\ call[r].raised # "none" => call[r].pc = "done" /\ call[r].result = UNDEF
        /\ call[r].raised = "UserError" => ShownUserError(call[r])
        /\ call[r].raised = "JavaExtensionNotEnabledError"
              => ShownInstallGuide(call[r]) /\ ~ShownGeneric(call[r])
        /\ call[r].raised = "Error" => ShownGeneric(call[r])

\* An awaited call failed with an error that is no UserError.
C7_RemoteErrorCaught ==
    \E r \in Ended : call[r].raised = "Error"

\* C7 as stated: any error that is no UserError is shown generically.
C7_OthersShownGenerically ==
    \A r \in Calls :
        /\ call[r].result # "rejected"
        /\ call[r].raised # "none" => call[r].pc = "done" /\ call[r].result = UNDEF
        /\ call[r].raised = "UserError" => ShownUserError(call[r])
        /\ call[r].raised \notin {"none", "UserError"} => ShownGeneric(call[r])

\* The awaits inside updateDebugSettings().
PushPcs == {"getJavaHome", "JAVA_UPDATE_DEBUG_SETTINGS"}

\* C9: the resolutions have started no more settings pushes than the flag
\* was set (its initial true value counted), and while a resolution is
\* suspended in its push the flag stays cleared until the next marking.
C9_PushesWithinMarkings ==
    /\ pushCount <= setCount
    /\ \A r \in Calls :
          call[r].pc \in PushPcs /\ call[r].pushMark = setCount => ~isUserSettingsDirty

\* Two resolutions have each pushed, one for the initial marking and one for
\* a settings change, and one of them is still suspended in its push.
C9_TwoMarkingsTwoPushes ==
    /\ pushCount = 2 /\ setCount = 2
    /\ \E r \in Calls : call[r].pc \in PushPcs

\* The awaits of a main-class, validation or classpath call to the
\* language server.
LanguageServerPcs ==
    {"resolveMainMethod", "resolveMainClass", "validateLaunchConfig", "resolveClasspath"}

\* C10 as stated: a resolution started after a settings change made with no
\* debug session active is not suspended at a main-class, validation or
\* classpath call while the push for that change has not completed.
C10_PushCompletesBeforeLanguageServerCalls ==
    \A r \in Calls :
        call[r].pc \in LanguageServerPcs /\ call[r].startMark > 1
            => pushDone >= call[r].startMark

\* A resolution started after a settings change is suspended at such a call
\* while another resolution is suspended in the push for that change.
C10_CallDuringPush ==
    \E r \in Calls, q \in Calls :
        /\ call[r].pc \in LanguageServerPcs /\ call[r].startMark > 1
        /\ call[q].pc \in PushPcs /\ call[q].pushMark = call[r].startMark
        /\ pushDone < call[r].startMark

\* C11 as stated: a resolution whose settings push failed, at any await of
\* updateDebugSettings(), has gone on to the step after the push, and no
\* message came of the failure.
C11_PushFailureDoesNotAbort ==
    \A r \in Calls : call[r].pushFailed # "none" => call[r].dispatched

\* The push command failed and the resolution returned its configuration.
C11_PushCommandFailed ==
    \E r \in Ended : call[r].pushFailed = "command" /\ call[r].result = "config"

\* The calls in which the user chose Fix and selected a proposal, started
\* with a configuration (no platform block) that the stored list held.
FixedStored ==
    {r \in Calls : /\ call[r].selectedFix # <<>>
                   /\ call[r].block = NoBlock
                   /\ findIndex(call[r].rawConfigs, call[r].orig) > 0}

\* C12 as stated: once the user has selected a proposal, the stored element
\* that matched the configuration the resolution was started with holds the
\* proposal's mainClass and projectName, and it does so before the proposal
\* becomes the active mainClass/projectName of the resolution.
C12_FixIsPersisted ==
    \A r \in FixedStored :
        LET stored == launchConfigurations[findIndex(call[r].rawConfigs, call[r].orig)]
        IN  /\ stored.mainClass = call[r].selectedFix[1].mainClass
            /\ stored.projectName = call[r].selectedFix[1].projectName

\* A fix was selected, written to the stored list, and the resolution
\* returned a configuration with it.
C12_FixPersistedAndReturned ==
    \E r \in FixedStored \cap Ended :
        /\ call[r].persisted /\ call[r].result = "config"
        /\ call[r].config.mainClass = call[r].selectedFix[1].mainClass

\* C13: persistLaunchConfig(original, updated) leaves a list of the same
\* length in which the element at the first index that equalled original is
\* updated and every other element is what it was, and has written the list
\* back once; when no element equalled original the list is what it was and
\* nothing was written.
C13_ReplacesFirstMatchOnly ==
    evaluation.fn = "persistLaunchConfig" =>
        LET raw == evaluation.rawConfigs
            matches == {i \in 1..Len(raw) : raw[i] = evaluation.oldConfig}
            first(i) == i \in matches /\ \A j \in matches : i <= j
        IN  /\ Len(launchConfigurations) = Len(raw)
            /\ \A i \in 1..Len(raw) :
                  launchConfigurations[i] =
                      IF first(i) THEN evaluation.newConfig ELSE raw[i]
            /\ evaluation.updates = IF matches = {} THEN 0 ELSE 1

\* persistLaunchConfig was called on a list that held original twice and
\* replaced the first of them with a different configuration.
C13_ReplacedFirstOfTwo ==
    /\ evaluation.fn = "persistLaunchConfig"
    /\ Cardinality({i \in 1..Len(evaluation.rawConfigs) :
                        evaluation.rawConfigs[i] = evaluation.oldConfig}) = 2
    /\ evaluation.newConfig # evaluation.oldConfig
    /\ launchConfigurations # evaluation.rawConfigs

\* The calls given a launch-ready configuration whose mainClass and
\* projectName validation has reported valid.
ReResolved ==
    {r \in Calls : LaunchReady(call[r].orig) /\ call[r].validation = "valid"}

\* What C14 says of the configuration: no classpath call is issued, and a
\* configuration returned has the mainClass, classPaths and modulePaths given.
SameLaunchFields(r) ==
    /\ "resolveClasspath" \notin call[r].started
    /\ call[r].result = "config" =>
          /\ call[r].config.mainClass = call[r].orig.mainClass
          /\ call[r].config.classPaths = call[r].orig.classPaths
          /\ call[r].config.modulePaths = call[r].orig.modulePaths

\* C14 as stated: re-resolving a launch-ready configuration that validation
\* reports valid shows no prompt at all, issues no classpath call and
\* returns the mainClass, classPaths and modulePaths it was given.
C14_NoPromptAtAll ==
    \A r \in ReResolved : call[r].prompts = 0 /\ SameLaunchFields(r)

\* C14, amended: the same, except that the question whether to proceed
\* after a failed build, asked before validation, may have been shown.
C14_NoPromptButBuildFailure ==
    \A r \in ReResolved :
        /\ call[r].prompts =
              IF "showErrorMessage(Build failed)" \in call[r].started THEN 1 ELSE 0
        /\ SameLaunchFields(r)

\* A launch-ready configuration was resolved again and returned, no prompt
\* shown.
C14_ReResolvedAndReturned ==
    \E r \in ReResolved \cap Ended :
        /\ call[r].result = "config"
        /\ call[r].prompts = 0

\* str with a backslash put before each backslash and each double quote.
RECURSIVE Escaped(_)
Escaped(str) ==
    IF str = <<>> THEN <<>>
    ELSE LET n == Len(str)
         IN  Escaped(SubSeq(str, 1, n - 1))
             \o (IF str[n] \in {"\"", "\\"} THEN <<"\\", str[n]>> ELSE <<str[n]>>)

\* A token as the argument string holds it.
Token(str) ==
    IF \E i \in 1..Len(str) : str[i] \in {" ", "\t", "\""}
    THEN <<"\"">> \o Escaped(str) \o <<"\"">>
    ELSE str

\* The tokens, a single space between each two.
RECURSIVE Joined(_)
Joined(strs) ==
    IF strs = <<>> THEN <<>>
    ELSE LET n == Len(strs)
         IN  IF n = 1 THEN Token(strs[1])
             ELSE Joined(SubSeq(strs, 1, n - 1)) \o <<" ">> \o Token(strs[n])

\* C15: after a configuration has been resolved, once or again, args given
\* as an array is the tokens joined with single spaces, a token wrapped in
\* double quotes with its backslashes and double quotes escaped exactly
\* when it holds whitespace or a double quote; args given as a string is
\* the string given.
C15_ConcatenatedOnceNeverRequoted ==
    (evaluation.fn = "args" /\ evaluation.resolutions > 0) =>
        /\ ~evaluation.isArray
        /\ evaluation.args = IF evaluation.wasArray THEN Joined(evaluation.given)
                                                    ELSE evaluation.given

\* An array with a token that holds a double quote and a backslash, and one
\* that needs no quotes, has been resolved twice.
C15_QuotedTokenResolvedTwice ==
    /\ evaluation.fn = "args" /\ evaluation.wasArray
    /\ evaluation.resolutions = 2
    /\ evaluation.given = << <<"\"", "\\">>, <<"a", "\\">> >>
    /\ evaluation.args = <<"\"", "\\", "\"", "\\", "\\", "\"", " ", "a", "\\">>

\* The calls given an empty mainClass for which exactly one candidate entry
\* point was found.
SingleCandidate ==
    {r \in Calls : call[r].orig.mainClass = "" /\ Len(call[r].entries) = 1}

\* C16: with mainClass empty and exactly one candidate found, no picker is
\* shown (the only prompt there can have been is the one of a failed
\* build), the configuration has the candidate's mainClass and projectName,
\* and unless the tracker was cancelled meanwhile the call has gone on to
\* the classpath step: resolveClasspath was called when the configuration
\* came without paths, and the step was passed when it came with some.
C16_SingleCandidateAutoSelected ==
    \A r \in SingleCandidate :
        /\ call[r].prompts =
              IF "showErrorMessage(Build failed)" \in call[r].started THEN 1 ELSE 0
        /\ call[r].config.mainClass = call[r].entries[1].mainClass
        /\ call[r].config.projectName = call[r].entries[1].projectName
        /\ \/ call[r].lateCancel
           \/ IF noPaths(call[r].orig)
              THEN "resolveClasspath" \in call[r].started
              ELSE "resolveJavaExecutable" \in call[r].started

\* The single candidate was taken and resolveClasspath is being awaited
\* for its mainClass and projectName.
C16_ClasspathCallForCandidate ==
    \E r \in SingleCandidate :
        /\ call[r].pc = "resolveClasspath"
        /\ call[r].config.mainClass = "a.Main" /\ call[r].config.projectName = "p"
        /\ call[r].prompts = 0

\* The calls in flight.
Running == {r \in Calls : call[r].pc \in AwaitPcs}

\* C17 as stated: no two calls in flight together hold the same reporter,
\* and (nothing else cancelling here) no call in flight finds its reporter
\* cancelled by the end of another.
C17_ReporterNeverShared ==
    /\ \A r, q \in Running : r # q => call[r].progressReporter # call[q].progressReporter
    /\ \A r \in Running : ~isCancelled(call[r].progressReporter)

\* Two calls given no __progressId are in flight together, each with the
\* reporter it created.
C17_OwnReporters ==
    /\ Running = Calls
    /\ \A r \in Calls : call[r].created
    /\ call[1].progressReporter # call[2].progressReporter

\* C18: a configuration that has been returned has no __progressId, and
\* until it is returned (while the call runs, and after it was abandoned or
\* failed) the configuration has the __progressId it arrived with.
C18_ProgressIdRemovedAtFinalizeOnly ==
    \A r \in Calls :
        IF call[r].result = "config"
        THEN call[r].config.progressId = UNDEF
        ELSE call[r].config.progressId = call[r].orig.progressId

\* A configuration that arrived with a registered __progressId was returned.
C18_ReturnedWithoutProgressId ==
    \E r \in Ended :
        /\ call[r].orig.progressId = "p1"
        /\ call[r].result = "config"
        /\ call[r].config.progressId = UNDEF

\* C19: after the merge, done once or again, every key of the block the
\* configuration came with has the block's value at the top level, every
\* other key has the value the configuration came with, and the block is
\* gone.
C19_BlockFoldedOnce ==
    (evaluation.fn = "mergePlatformProperties" /\ evaluation.resolutions > 0) =>
        /\ \A k \in evaluation.givenBlock.keys :
              evaluation.config[k] = evaluation.givenBlock.values[k]
        /\ \A k \in DOMAIN evaluation.given \ evaluation.givenBlock.keys :
              evaluation.config[k] = evaluation.given[k]
        /\ DOMAIN evaluation.config = DOMAIN evaluation.given
        /\ evaluation.block = NoBlock

\* A block whose mainClass overrides a different top-level mainClass was
\* merged, and the merge applied again.
C19_OverriddenAndMergedAgain ==
    /\ evaluation.fn = "mergePlatformProperties"
    /\ evaluation.resolutions = 2
    /\ evaluation.givenBlock = MainClassBlock
    /\ evaluation.given.mainClass = "/w/App.java"
    /\ evaluation.config.mainClass = "a.Main"

\* C20 as stated: no call has started a remote call or a prompt with its
\* tracker already cancelled (the settings push, getJavaHome and the push
\* command, taken as the one suspension point the claim lists).
C20_NothingStartedAfterCancel ==
    \A r \in Calls : ~call[r].afterCancel

\* The tracker was cancelled while the call was suspended, the check after
\* the suspension saw it, and the call ended without starting anything more.
C20_CheckedAfterSuspension ==
    \E r \in Ended :
        /\ call[r].lateCancel /\ ~call[r].afterCancel
        /\ call[r].result = UNDEF /\ call[r].shown = {}

\* C21: a call that returned a configuration was given a token that has not
\* fired, its tracker was not cancelled while it was suspended in the
\* pipeline, and it started no remote call or prompt with the tracker
\* cancelled: nothing had cancelled it when it passed the final check.
C21_ReturnedOnlyIfNeverCancelled ==
    \A r \in Calls :
        call[r].result = "config" =>
            /\ call[r].token # "fired"
            /\ ~call[r].lateCancel
            /\ ~call[r].afterCancel

\* A call given a cancellation token that never fired returned its
\* configuration.
C21_ReturnedWithLiveToken ==
    \E r \in Ended : call[r].result = "config" /\ call[r].token = "live"

\* The calls resolving a launch configuration.
Launching == {r \in Calls : call[r].config.request = "launch" /\ call[r].dispatched}

\* C22 as stated: the step filters are populated only after preview-flag and
\* command-style detection: no launch resolution that has populated them
\* is still at one of the detection steps.
C22_StepFiltersAfterDetection ==
    \A r \in Launching :
        "populateStepFilters" \in call[r].started =>
            call[r].pc \notin {"detectPreviewFlag", "addMoreHelpfulVMArgs",
                               "detectLaunchCommandStyle"}

\* The place of each await in the launch branch, in the order of the code.
Rank(pc) ==
    CASE pc = "buildWorkspace" -> 1
      [] pc \in {"resolveMainMethod", "validateLaunchConfig"} -> 2
      [] pc \in {"resolveMainClass", "showErrorMessageWithTroubleshooting"} -> 3
      [] pc \in {"showQuickPick", "showQuickPickWithRecentlyUsed", "showQuickPickFix"} -> 4
      [] pc = "launchConfigurations.update" -> 5
      [] pc = "resolveClasspath" -> 6
      [] pc = "resolveJavaExecutable" -> 7
      [] pc = "populateStepFilters" -> 8
      [] pc = "detectPreviewFlag" -> 9
      [] pc = "addMoreHelpfulVMArgs" -> 10
      [] pc = "detectLaunchCommandStyle" -> 11
      [] OTHER -> 12

\* C22, amended: the steps of a launch resolution run one after another in
\* the order build, main-class resolution, classpath, java executable,
\* step-filter population, preview-flag detection, helpful VM arguments,
\* command-style detection: every step a launch resolution moves to comes
\* later in that order than the one it was suspended at, and it is at a
\* step from the classpath call on only with a main class resolved.
C22_StepsInCodeOrder ==
    [][\A r \in Launching :
          /\ (call[r].pc \in PipelinePcs /\ call'[r].pc # call[r].pc)
                => Rank(call'[r].pc) > Rank(call[r].pc)
          /\ (call'[r].pc \in PipelinePcs /\ Rank(call'[r].pc) >= 6)
                => (call'[r].config.mainClass # "" /\ ~isFile(call'[r].config.mainClass))]_vars

\* A launch resolution that built the workspace, resolved the classpath and
\* the java executable and populated the step filters is at command-style
\* detection.
C22_AtCommandStyleDetection ==
    \E r \in Launching :
        /\ call[r].pc = "detectLaunchCommandStyle"
        /\ {"resolveClasspath", "resolveJavaExecutable", "populateStepFilters"}
              \subseteq call[r].started

\* The usage error of the classpath step was shown.
ShownNoClasspath(c) ==
    \E m \in c.shown :
        /\ m.via = "showErrorMessageWithTroubleshooting" /\ m.what = "UserError"
        /\ m.about = "Cannot resolve the modulepaths/classpaths automatically"

\* C23: a launch resolution asks for the classpath only when it was given
\* neither classPaths nor modulePaths; while both are empty it has not asked
\* for the java executable; and when it has ended after the classpath call
\* with both still empty, it returned undefined, and unless the call itself
\* failed it raised the usage error of the classpath step and showed it.
C23_ClasspathOnlyIfEmptyElseUsageError ==
    \A r \in Launching :
        /\ "resolveClasspath" \in call[r].started => noPaths(call[r].orig)
        /\ noPaths(call[r].config) =>
              /\ "resolveJavaExecutable" \notin call[r].started
              /\ Rank(call[r].pc) \notin 7..11
        /\ (r \in Ended /\ "resolveClasspath" \in call[r].started /\ noPaths(call[r].config)) =>
              /\ call[r].result = UNDEF
              /\ \/ call[r].raised \in {ex.type : ex \in RemoteErrors}
                 \/ call[r].raised = "UserError" /\ ShownNoClasspath(call[r])

\* The classpath call answered with no paths and the resolution ended with
\* the usage error.
C23_EmptyClasspathAnswer ==
    \E r \in Launching \cap Ended :
        /\ "resolveClasspath" \in call[r].started
        /\ call[r].raised = "UserError" /\ ShownNoClasspath(call[r])
        /\ call[r].result = UNDEF

\* The attach fields are what the configuration came with.
AttachFieldsUnchanged(c) ==
    /\ c.config.hostName = c.orig.hostName
    /\ c.config.port = c.orig.port
    /\ c.config.processId = c.orig.processId

\* C24: an attach resolution without hostName+port whose processId is the
\* pick-a-process sentinel has ended with undefined, the resolver not
\* called, nothing shown or raised, and the attach fields unchanged.
C24_SentinelEndsSilently ==
    \A r \in Attaching :
        (~HasHostPort(call[r].orig) /\ call[r].orig.processId = PickJavaProcess) =>
            /\ call[r].pc = "done" /\ call[r].result = UNDEF
            /\ call[r].resolverCalls = 0
            /\ call[r].shown = {} /\ call[r].raised = "none"
            /\ AttachFieldsUnchanged(call[r])

\* An attach resolution with a hostName but no port and the sentinel as
\* processId has ended.
C24_SentinelWithHostNameOnly ==
    \E r \in Attaching \cap Ended :
        /\ call[r].orig.hostName = "localhost" /\ call[r].orig.port = 0
        /\ call[r].orig.processId = PickJavaProcess

\* C25: an attach resolution given neither hostName and port both nor a
\* processId has ended with undefined, having raised and shown the usage
\* error that asks for one of the two, with the attach fields unchanged.
C25_NeitherFormIsUsageError ==
    \A r \in Attaching :
        (~HasHostPort(call[r].orig) /\ call[r].orig.processId = UNDEF) =>
            /\ call[r].pc = "done" /\ call[r].result = UNDEF
            /\ call[r].raised = "UserError"
            /\ \E m \in call[r].shown :
                  /\ m.via = "showErrorMessageWithTroubleshooting" /\ m.what = "UserError"
                  /\ m.about = "Please specify the hostName/port directly, or provide the processId"
            /\ call[r].resolverCalls = 0
            /\ AttachFieldsUnchanged(call[r])

\* An attach resolution given a hostName only has ended with the usage error.
C25_HostNameOnly ==
    \E r \in Attaching \cap Ended :
        /\ call[r].orig.hostName = "localhost" /\ call[r].orig.port = 0
        /\ call[r].orig.processId = UNDEF
        /\ call[r].raised = "UserError"

\* C26: an attach resolution without hostName+port whose processId is not
\* the sentinel and does not coerce to a number has ended with undefined,
\* having shown the error that names the processId, the resolver not called.
C26_NotANumberIsRefused ==
    \A r \in Attaching :
        (/\ ~HasHostPort(call[r].orig)
         /\ call[r].orig.processId \notin {UNDEF, PickJavaProcess}
         /\ Number(call[r].orig.processId) = NaN) =>
            /\ call[r].pc = "done" /\ call[r].result = UNDEF
            /\ \E m \in call[r].shown :
                  /\ m.via = "showErrorMessage" /\ m.what = InvalidProcessId
                  /\ m.about = call[r].orig.processId
            /\ call[r].resolverCalls = 0

\* An attach resolution given processId "abc" has ended.
C26_ProcessIdAbc ==
    \E r \in Attaching \cap Ended :
        /\ ~HasHostPort(call[r].orig) /\ call[r].orig.processId = "abc"
        /\ call[r].result = UNDEF /\ call[r].shown # {}

\* The calls whose mainClass or projectName validation reported invalid.
Invalid == {r \in Launching : call[r].validation \notin {"none", "valid"}}

\* C27: a resolution whose validation reported a field invalid and proposed
\* nothing has ended with undefined, having raised a usage error and shown
\* exactly the validation messages of the invalid fields, without a fix
\* prompt and without a write to the stored configurations.
C27_InvalidWithoutProposalsIsUsageError ==
    \A r \in Invalid :
        call[r].proposals = <<>> =>
            /\ call[r].pc = "done" /\ call[r].result = UNDEF
            /\ call[r].raised = "UserError"
            /\ \E m \in call[r].shown :
                  /\ call[r].shown = {m}
                  /\ m.via = "showErrorMessageWithTroubleshooting" /\ m.what = "UserError"
                  /\ m.about =
                        CASE call[r].validation = "invalid mainClass" -> "mainClass message"
                          [] call[r].validation = "invalid projectName" -> "projectName message"
                          [] OTHER -> "mainClass message, projectName message"
            /\ call[r].prompts =
                  IF "showErrorMessage(Build failed)" \in call[r].started THEN 1 ELSE 0
            /\ ~call[r].persisted /\ call[r].selectedFix = <<>>

\* Validation reported both fields invalid and proposed nothing.
C27_BothInvalidNothingProposed ==
    \E r \in Invalid \cap Ended :
        /\ call[r].proposals = <<>>
        /\ call[r].validation = "invalid mainClass and projectName"
        /\ call[r].raised = "UserError"

\* C28: a resolution whose validation reported a field invalid with
\* proposals, and that ended with no proposal selected, returned undefined,
\* raised nothing, wrote nothing to the stored configurations and left
\* mainClass and projectName as they came.
C28_DeferredFixIsAbandoned ==
    \A r \in Invalid \cap Ended :
        (call[r].proposals # <<>> /\ call[r].selectedFix = <<>>) =>
            /\ call[r].result = UNDEF
            /\ call[r].raised = "none"
            /\ ~call[r].persisted
            /\ call[r].config.mainClass = call[r].orig.mainClass
            /\ call[r].config.projectName = call[r].orig.projectName

\* The user chose Fix and then dismissed the selection.
C28_FixChosenThenDismissed ==
    \E r \in Invalid \cap Ended :
        /\ call[r].proposals # <<>> /\ call[r].selectedFix = <<>>
        /\ call[r].prompts >= 2
        /\ call[r].result = UNDEF

\* Call r enters the project-wide scan in this step.
ScanBegins(r) == call'[r].pc = "resolveMainClass" /\ call[r].pc # "resolveMainClass"

\* C29: a launch whose mainClass is unset or names an existing file asks for
\* the entry points of that file, or of the active editor's file, whenever
\* there is such a file; the project-wide scan begins only after that
\* request, or at once when there is no file to ask about; a scan that finds
\* nothing ends the resolution with undefined and the usage error "Cannot
\* find a class with the main method", with no selection prompt.
C29_FileThenScanThenUsageError ==
    [][\A r \in Calls :
         /\ (call[r].currentFile = UNDEF /\ call'[r].currentFile # UNDEF) =>
               /\ call[r].config.mainClass = "" \/ isFile(call[r].config.mainClass)
               /\ call[r].config.mainClass # "" =>
                     call'[r].currentFile = call[r].config.mainClass
               /\ call'[r].pc = IF call'[r].currentFile # "" THEN "resolveMainMethod"
                                ELSE "resolveMainClass"
         /\ ScanBegins(r) =>
               \/ call[r].pc = "resolveMainMethod"
               \/ call'[r].currentFile = "" /\ call[r].currentFile = UNDEF
         /\ (call[r].scanned = "no" /\ call'[r].scanned = "empty") =>
               /\ call[r].pc = "resolveMainClass"
               /\ call'[r].pc = "done" /\ call'[r].result = UNDEF
               /\ call'[r].raised = "UserError"
               /\ \E m \in call'[r].shown \ call[r].shown :
                     /\ m.what = "UserError"
                     /\ m.about = "Cannot find a class with the main method"
               /\ call'[r].prompts = call[r].prompts
               /\ call'[r].entries = <<>>]_vars

\* C29: every project-wide scan follows a request for the entry points of a
\* file.
C29_ScanOnlyAfterFileRequest ==
    [][\A r \in Calls : ScanBegins(r) => call[r].pc = "resolveMainMethod"]_vars

\* The file named by mainClass has no entry point and the scan finds nothing.
C29_FileAndScanBothEmpty ==
    \E r \in Ended :
        /\ call[r].currentFile \notin {UNDEF, ""}
        /\ call[r].scanned = "empty"
        /\ call[r].raised = "UserError"

\* The candidates as they are put before the user.
Presented ==
    IF evaluation.fn = "chooseMainClass" /\ evaluation.outcome = "showQuickPick"
    THEN evaluation.pickItems ELSE <<>>

\* C30: the candidates put before the user are in lexicographic order of
\* mainClass, and candidates of equal mainClass are in the order in which
\* the language server returned them.
C30_ByMainClassThenAsReturned ==
    \A i, j \in 1..Len(Presented) :
        i < j =>
            /\ ~greater(Presented[i].item.mainClass, Presented[j].item.mainClass)
            /\ Presented[i].item.mainClass = Presented[j].item.mainClass
                    => Presented[i].at < Presented[j].at

\* Two candidates of one mainClass are put before the user.
C30_EqualMainClassPresented ==
    \E i, j \in 1..Len(Presented) :
        /\ i < j
        /\ Presented[i].item.mainClass = Presented[j].item.mainClass

\* The places in res of the candidates of the active editor's file, as
\* chooseMainClass found the editor and the platform.
Matching ==
    {i \in 1..Len(evaluation.res) :
        LET filePath == evaluation.res[i].filePath
        IN  /\ evaluation.fileName # ""
            /\ IF evaluation.platform = "win32"
               THEN {filePath, evaluation.fileName} \in
                        {{"/a"}, {"/A"}, {"/b"}, {"/a", "/A"}}
               ELSE filePath = evaluation.fileName}

\* C31: chooseMainClass with some candidate returns the one candidate of the
\* active editor's file without a prompt, however many candidates there are;
\* with no such candidate or several it puts the candidates before the user
\* when there are several, and takes the only one otherwise.
C31_OnlyCandidateOfActiveFileIsTaken ==
    (/\ evaluation.fn = "chooseMainClass"
     /\ evaluation.outcome # "resolveMainClass"
     /\ Len(evaluation.res) > 0) =>
        IF Cardinality(Matching) = 1
        THEN /\ evaluation.outcome = "return"
             /\ \A i \in Matching : evaluation.selection = << evaluation.res[i] >>
        ELSE IF Len(evaluation.res) > 1
        THEN evaluation.outcome = "showQuickPick" /\ evaluation.selection = <<>>
        ELSE evaluation.outcome = "return" /\ evaluation.selection = evaluation.res

\* On win32 one of three candidates is of the active file, but for the case.
C31_OneOfThreeMatchesIgnoringCase ==
    /\ evaluation.fn = "chooseMainClass" /\ evaluation.outcome = "return"
    /\ evaluation.platform = "win32"
    /\ Len(evaluation.res) = 3
    /\ \E i \in Matching : Matching = {i} /\ evaluation.res[i].filePath # evaluation.fileName

\* C32: of two resolutions in flight together, with no token and nobody
\* asking to cancel, a step that is not the call's own changes neither
\* its configuration, nor its result, nor whether its tracker is cancelled,
\* and the call that has the step filters' answer returns its configuration
\* as it does alone.
C32_UndisturbedByTheOther ==
    [][\A r \in Calls :
         /\ (call[r].pc \in AwaitPcs /\ call'[r].pc = call[r].pc) =>
               /\ call'[r].config = call[r].config
               /\ call'[r].result = call[r].result
               /\ isCancelled(call[r].progressReporter)' = isCancelled(call[r].progressReporter)
         /\ (/\ call[r].pc = "populateStepFilters" /\ call'[r].pc = "done"
             /\ call'[r].raised = "none") => call'[r].result = "config"]_vars

\* Two resolutions in flight together, each with its own tracker, have both
\* returned their configurations.
C32_BothReturned ==
    \A r \in Calls :
        /\ call[r].pc = "done" /\ call[r].result = "config"
        /\ call[r].created
        /\ \A q \in Calls \ {r} : call[q].progressReporter # call[r].progressReporter

C34_DirtyFollowsTheLastEvent ==
    [][LET noSession == setCount' = setCount + 1
           inSession == changes' = changes + 1 /\ setCount' = setCount
           consumed == pushCount' = pushCount + 1
       IN  /\ (changes = 0 /\ pushCount = 0) => isUserSettingsDirty
           /\ noSession => isUserSettingsDirty' /\ changes' = changes + 1
           /\ inSession => ~isUserSettingsDirty' /\ setCount \in eventPush'
           /\ consumed => isUserSettingsDirty /\ ~isUserSettingsDirty'
           /\ (~isUserSettingsDirty /\ isUserSettingsDirty') => noSession
           /\ (isUserSettingsDirty /\ ~isUserSettingsDirty') => inSession \/ consumed
           /\ setCount' \in {setCount, setCount + 1}
           /\ pushCount' \in {pushCount, pushCount + 1}]_vars

\* A java.debug settings change made with an active debug session has
\* cleared the flag, that no resolution had consumed, and started a push.
C34_ClearedBySessionChange ==
    /\ ~isUserSettingsDirty
    /\ pushCount = 0
    /\ eventPush # {}

\* C35: every step that changes the stored launch configurations is the
\* fix path's write: one element, equal to the configuration in flight,
\* is replaced by a configuration that differs from it in mainClass and
\* projectName only, which take the selected proposal's values; no step of
\* a resolution after the write changes the stored list.
C35_StoredCopyDiffersInMainClassOnly ==
    [][launchConfigurations' # launchConfigurations =>
         \E r \in Calls, i \in 1..Len(launchConfigurations) :
            /\ call[r].pc = "showQuickPickFix"
            /\ call'[r].selectedFix # <<>>
            /\ launchConfigurations[i] = call[r].config
            /\ launchConfigurations' =
                  [launchConfigurations EXCEPT
                     ![i] = [@ EXCEPT !.mainClass = call'[r].selectedFix[1].mainClass,
                                      !.projectName = call'[r].selectedFix[1].projectName]]]_vars

\* The resolution wrote the fix and went on to set classPaths and javaExec
\* on its configuration; the stored element has the fix and neither.
C35_StoredWithoutResolvedFields ==
    \E r \in Ended, i \in 1..Len(launchConfigurations) :
        /\ call[r].persisted /\ call[r].result = "config"
        /\ call[r].config.classPaths # <<>> /\ call[r].config.javaExec # UNDEF
        /\ launchConfigurations[i].mainClass = call[r].config.mainClass
        /\ launchConfigurations[i] # call[r].rawConfigs[i]
        /\ launchConfigurations[i].classPaths = <<>>
        /\ launchConfigurations[i].javaExec = UNDEF

\* C36: a call given a configuration that is empty apart from noDebug keeps
\* it as given until the branch on the request type; from then on the
\* configuration has type java and request launch, the call is in the
\* launch pipeline or past it, and the unsupported-request-type error is
\* never shown.
C36_EmptyBecomesLaunch ==
    \A r \in Calls :
        (call[r].pc # "idle" /\ call[r].block = NoBlock /\ isEmptyConfig(call[r].orig)) =>
            IF call[r].dispatched
            THEN /\ call[r].config.type = "java" /\ call[r].config.request = "launch"
                 /\ call[r].config.noDebug = call[r].orig.noDebug
                 /\ call[r].attachPath = IdleCall.attachPath
                 /\ call[r].resolverCalls = 0
                 /\ \A m \in call[r].shown : m.about # "Request type is not supported"
            ELSE call[r].config = call[r].orig

\* A configuration that held noDebug and nothing else was returned as a
\* launch configuration.
C36_NoDebugAloneReturned ==
    \E r \in Ended :
        /\ isEmptyConfig(call[r].orig) /\ call[r].orig.noDebug
        /\ call[r].result = "config"
        /\ call[r].config.request = "launch" /\ call[r].config.mainClass # ""

\* The calls given a __progressId under which no reporter is registered.
UnknownProgress ==
    {r \in Calls : /\ call[r].pc # "idle"
                   /\ call[r].orig.progressId \notin RegisteredIds \cup {UNDEF}}

\* C37: a call given a __progressId under which no reporter is registered
\* has ended with undefined, holds no reporter and created none, made no
\* remote call and no prompt, showed nothing, did not consume the dirty
\* flag, and its configuration is as it was given.
C37_UnknownProgressIdIsAbandoned ==
    \A r \in UnknownProgress :
        /\ call[r].pc = "done" /\ call[r].result = UNDEF /\ call[r].raised = "none"
        /\ ~call[r].created
        /\ call[r].progressReporter = IdleCall.progressReporter
        /\ call[r].cancelCalls = 0
        /\ call[r].prompts = 0 /\ call[r].shown = {} /\ call[r].started = {}
        /\ call[r].resolverCalls = 0
        /\ ~call[r].dispatched
        /\ call[r].pushMark = IdleCall.pushMark /\ call[r].pushFailed = "none"
        /\ call[r].config = call[r].orig

\* A call given an unknown __progressId ended while the dirty flag is set.
C37_AbandonedWithFlagSet ==
    \E r \in UnknownProgress :
        /\ call[r].pc = "done"
        /\ call[r].config.progressId = call[r].orig.progressId
        /\ isUserSettingsDirty

\* The list provideDebugConfigurations has resolved with, <<>> before.
Provided ==
    IF evaluation.fn = "provideDebugConfigurations" /\ evaluation.pc = "resolved"
    THEN evaluation.result ELSE <<>>

\* C38: provideDebugConfigurations is suspended or has resolved with a list
\* whose first element is the default configuration; the list is that one
\* element when the tracker was cancelled, the language server was not in
\* standard mode, or a call failed; the reporter's cancel() has run once
\* when the call has resolved, and not before.
C38_ResolvesWithDefaultFirst ==
    evaluation.fn = "provideDebugConfigurations" =>
        IF evaluation.pc = "resolved"
        THEN /\ Len(Provided) >= 1 /\ Provided[1] = defaultLaunchConfig
             /\ (\/ evaluation.cancelled
                 \/ ~evaluation.isOnStandardMode
                 \/ evaluation.failed # "none") => Provided = <<defaultLaunchConfig>>
             /\ (~evaluation.cancelled /\ evaluation.isOnStandardMode
                    /\ evaluation.failed = "none")
                   => Len(Provided) = 1 + Len(evaluation.mainClasses)
             /\ evaluation.cancelCalls = 1
        ELSE /\ evaluation.pc \in {"waitForStandardMode", "resolveMainClass"}
             /\ evaluation.result = <<>>
             /\ evaluation.cancelCalls = 0

\* The tracker was cancelled while the main classes were being resolved,
\* and the answer held two of them.
C38_CancelledDuringResolveMainClass ==
    /\ evaluation.fn = "provideDebugConfigurations" /\ evaluation.pc = "resolved"
    /\ evaluation.cancelled /\ evaluation.isOnStandardMode
    /\ Len(evaluation.mainClasses) = 2
    /\ Provided = <<defaultLaunchConfig>>

\* C39: the names of the launch configurations generated by one
\* provideDebugConfigurations call differ from each other: the first item of
\* a base name has the base name, and the item with k items of the same
\* base name before it has the base name followed by (k).
C39_NamesCountRepetitions ==
    Len(Provided) > 1 =>
        LET items == evaluation.mainClasses
            before(i) == Cardinality({j \in 1..(i - 1) : baseName(items[j]) = baseName(items[i])})
        IN  /\ \A i \in 1..Len(items) :
                  Provided[i + 1].name =
                     IF before(i) = 0 THEN baseName(items[i])
                     ELSE baseName(items[i]) \o <<"(", ToString(before(i)), ")">>
            /\ \A i, j \in 1..Len(Provided) : i # j => Provided[i].name # Provided[j].name

\* Three main classes of one simple name and one project were named.
C39_ThreeOfOneBaseName ==
    /\ Len(Provided) = 4
    /\ \A i, j \in 1..3 : baseName(evaluation.mainClasses[i]) = baseName(evaluation.mainClasses[j])
    /\ evaluation.mainClasses[1].mainClass # evaluation.mainClasses[2].mainClass
    /\ Provided[4].name = baseName(evaluation.mainClasses[3]) \o <<"(", "2", ")">>

\* The invocations of the start command that are suspended.
InProgress ==
    IF evaluation.fn = "startDebugSession"
    THEN {i \in Calls : evaluation.inv[i].pc \notin {"idle", "ignored", "done"}}
    ELSE {}

\* C40: at most one invocation of the start command is suspended at a time,
\* and status.debugging is set exactly while one is; an invocation is ignored
\* only if made while another is suspended, and then it makes no call and
\* shows nothing.
C40_OneStartAtATime ==
    [][evaluation.fn = "startDebugSession" =>
         /\ Cardinality(InProgress) <= 1
         /\ evaluation.debugging <=> InProgress # {}
         /\ \A i \in Calls :
               (evaluation.inv[i].pc = "idle" /\ evaluation'.inv[i].pc # "idle") =>
                  IF InProgress # {}
                  THEN /\ evaluation'.inv[i].pc = "ignored"
                       /\ evaluation'.inv[i].calls = 0
                       /\ evaluation'.debugging
                  ELSE /\ evaluation'.inv[i].pc = "configLogLevel"
                       /\ evaluation'.debugging]_vars

\* An invocation has ended by a failed call and the other, made after it,
\* is in progress.
C40_StartedAfterAFailure ==
    /\ evaluation.fn = "startDebugSession"
    /\ \E i, j \in Calls :
         /\ evaluation.inv[i].pc = "done"
         /\ evaluation.inv[i].config = "launch, mainClass" /\ evaluation.inv[i].calls = 2
         /\ evaluation.inv[j].pc = "startDebugSession"

\* C8: an invocation of the gateway made while the Java extension is not
\* enabled throws the not-activated error and puts nothing on the command
\* bus; one made while it is enabled throws nothing, puts exactly its
\* command with its arguments as given on the bus, and what it returns is
\* the promise the bus made, so that the caller sees the result or the
\* failure the bus settles it with.
C8_GatewayChecksBeforeDispatch ==
    invocation.via # "none" =>
        IF ~invocation.enabled
        THEN /\ invocation.thrown = << JavaExtensionNotActivatedError(invocation.commandName) >>
             /\ invocation.sentAfter = invocation.sentBefore
             /\ invocation.returned = 0
        ELSE /\ invocation.thrown = <<>>
             /\ invocation.sentAfter = invocation.sentBefore + 1
             /\ invocation.returned = invocation.sentAfter
             /\ commandBus[invocation.returned].command = invocation.commandName
             /\ commandBus[invocation.returned].args = invocation.rest

\* The gateway was invoked while the extension was not enabled, after a
\* command went through.
C8_InvokedWhileDisabled ==
    /\ invocation.via = "executeJavaExtensionCommand"
    /\ ~invocation.enabled
    /\ \E k \in 1..Len(commandBus) : commandBus[k].promise.kind = "failure"

====
